---- MODULE Spec2Model ----
(***************************************************************************)
(* Turkish morphological engine of ozcuk: the verb conjugation engine      *)
(* (conjugate-turkish), the deinflection engine (deinflect) and the vowel  *)
(* harmony module they share.                                              *)
(*                                                                         *)
(* Strings are sequences of UTF-16 code units; a code unit is a TLA+       *)
(* string.  ASCII letters stand for themselves.  The letters outside       *)
(* ASCII are written as two-character tokens:                              *)
(*   "i0" dotless i (U+0131)   "o:" o-diaeresis   "u:" u-diaeresis         *)
(*   "s," s-cedilla            "c," c-cedilla     "g^" g-breve             *)
(*   "I." capital dotted I (U+0130)   ".^" combining dot above (U+0307)    *)
(*   "O:" "U:" "S," "C," "G^" the capitals of the above                    *)
(* In suffix templates "A", "I" and "D" are the harmony placeholders.      *)
(***************************************************************************)
EXTENDS Integers, Sequences, FiniteSets, TLC

VARIABLES
    pc,         \* which operation produced the current state
    infinitive, \* argument of conjugateVerb / getConjugation
    compound,   \* argument includeCompound of conjugateVerb
    tense,      \* argument: one of ALL_TENSES
    person,     \* argument: one of the six persons
    polarity,   \* which cell of the table: positive, negative, question, negativeQuestion
    form,       \* the conjugated surface form
    table,      \* the ConjugationTable returned by conjugateVerb
    word,       \* argument of deinflect
    results,    \* deinflect's local results array before the final filter
    output,     \* value returned by deinflect
    harmonyStem,      \* argument stem of applySuffix
    harmonyTemplate,  \* argument suffixTemplate of applySuffix
    suffixed,   \* value returned by applySuffix
    site,       \* the orchestration running: load, analyzer or saved
    query,      \* the word looked up: the page's query or the token's word
    wordStore,  \* the entries of the word store, by key
    reverseIndex, \* the reverse index the server loads, English word to Turkish words
    lookups,    \* the lookups issued so far, in order
    deinflectCalled, \* deinflect has been called by the orchestration
    candidates, \* what deinflect returned to the orchestration
    idx,        \* the position of the loop over the candidates
    token,      \* tokens[index] of fetchWordData
    page,       \* the locals of load, which it returns
    component,  \* the component analysing a sentence: analyzer or saved
    sentenceProp,     \* the sentence handed to the component
    currentSentence,  \* the sentence the analysis page tokenized last
    tokens,     \* the token list of the component
    selectedIndex,    \* the selected token, nothing or one index
    navigation,       \* the navigation goto has started and that has not completed
    running,    \* the fetchWordData runs waiting on a lookup
    started,    \* the number of runs started so far
    timers,     \* the prefetch timers of the analysis page not yet fired
    changes     \* the number of sentence changes so far

\* the arguments and results of the conjugation and deinflection calls
engineVars == <<infinitive, compound, tense, person, polarity, form, table, word, results, output>>

\* the arguments and result of the applySuffix call
harmonyVars == <<harmonyStem, harmonyTemplate, suffixed>>

\* the state of a lookup orchestration
lookupVars == <<site, query, wordStore, reverseIndex, lookups, deinflectCalled, candidates, idx, token, page>>

\* the state of a sentence analysis
analysisVars ==
    <<component, sentenceProp, currentSentence, tokens, selectedIndex, navigation, running,
      started, timers, changes>>

vars == <<pc, engineVars, harmonyVars, lookupVars, analysisVars>>

NULL == "null"

(***************************************************************************)
(* String helpers (JavaScript String methods)                              *)
(***************************************************************************)
Max(a, b) == IF a >= b THEN a ELSE b

\* s.slice(0, -n)
DropLast(s, n) == SubSeq(s, 1, Max(Len(s) - n, 0))

\* s.endsWith(t)
EndsWith(s, t) ==
    /\ Len(t) <= Len(s)
    /\ SubSeq(s, Len(s) - Len(t) + 1, Len(s)) = t

\* s.lastIndexOf(t), 0-based, -1 when absent
LastIndexOf(s, t) ==
    LET hits == {i \in 0..(Len(s) - Len(t)) : SubSeq(s, i + 1, i + Len(t)) = t}
    IN  IF hits = {} THEN -1 ELSE CHOOSE i \in hits : \A j \in hits : j <= i

UpperMap ==
    [c \in {"A","B","C","D","E","F","G","H","I","J","K","L","M","N","O","P","Q",
            "R","S","T","U","V","W","X","Y","Z","C,","G^","O:","S,","U:"} |->
        CASE c = "A" -> "a" [] c = "B" -> "b" [] c = "C" -> "c" [] c = "D" -> "d"
          [] c = "E" -> "e" [] c = "F" -> "f" [] c = "G" -> "g" [] c = "H" -> "h"
          [] c = "I" -> "i" [] c = "J" -> "j" [] c = "K" -> "k" [] c = "L" -> "l"
          [] c = "M" -> "m" [] c = "N" -> "n" [] c = "O" -> "o" [] c = "P" -> "p"
          [] c = "Q" -> "q" [] c = "R" -> "r" [] c = "S" -> "s" [] c = "T" -> "t"
          [] c = "U" -> "u" [] c = "V" -> "v" [] c = "W" -> "w" [] c = "X" -> "x"
          [] c = "Y" -> "y" [] c = "Z" -> "z" [] c = "C," -> "c," [] c = "G^" -> "g^"
          [] c = "O:" -> "o:" [] c = "S," -> "s," [] c = "U:" -> "u:"]

\* toLowerCase of one code unit: locale-independent, so "I" becomes "i" and
\* the dotted capital becomes "i" followed by a combining dot (two units)
LowerChar(c) ==
    IF c = "I." THEN <<"i", ".^">>
    ELSE IF c \in DOMAIN UpperMap THEN <<UpperMap[c]>>
    ELSE <<c>>

RECURSIVE toLowerCase(_)
toLowerCase(s) ==
    IF s = <<>> THEN <<>> ELSE LowerChar(Head(s)) \o toLowerCase(Tail(s))

\* x?.toLowerCase() of the last code unit; <<>> stands for undefined
LastCharLower(s) == IF s = <<>> THEN <<>> ELSE LowerChar(s[Len(s)])

(***************************************************************************)
(* Vowel harmony module                                                    *)
(***************************************************************************)
VOWELS ==
    [front     |-> {"e", "i", "o:", "u:"},
     back      |-> {"a", "i0", "o", "u"},
     rounded   |-> {"o", "o:", "u", "u:"},
     unrounded |-> {"a", "e", "i0", "i"},
     all       |-> {"a", "e", "i0", "i", "o", "o:", "u", "u:"}]

CONSONANTS ==
    [voiced    |-> {"b", "c", "d", "g", "g^", "j", "l", "m", "n", "r", "v", "y", "z"},
     voiceless |-> {"c,", "f", "h", "k", "p", "s", "s,", "t"},
     softening |-> {"p", "t", "k", "c,"}]

\* the last vowel of an already lowercased word
LastVowelIn(normalized) ==
    IF \A i \in 1..Len(normalized) : normalized[i] \notin VOWELS.all THEN NULL
    ELSE normalized[CHOOSE i \in 1..Len(normalized) :
            /\ normalized[i] \in VOWELS.all
            /\ \A j \in (i + 1)..Len(normalized) : normalized[j] \notin VOWELS.all]

getLastVowel(w) == LastVowelIn(toLowerCase(w))

\* the argument is always a lowercase vowel here, so toLowerCase is a no-op
getVowelCategory(vowel) ==
    LET isFront == vowel \in VOWELS.front
        isRounded == vowel \in VOWELS.rounded
    IN  IF isFront /\ ~isRounded THEN "front-unrounded"
        ELSE IF isFront /\ isRounded THEN "front-rounded"
        ELSE IF ~isFront /\ ~isRounded THEN "back-unrounded"
        ELSE "back-rounded"

getTwoWayHarmony(lastVowel) == IF lastVowel \in VOWELS.front THEN "e" ELSE "a"

getFourWayHarmony(lastVowel) ==
    LET category == getVowelCategory(lastVowel)
    IN  CASE category = "front-unrounded" -> "i"
          [] category = "front-rounded" -> "u:"
          [] category = "back-unrounded" -> "i0"
          [] category = "back-rounded" -> "u"

isEType(w) ==
    LET lastVowel == getLastVowel(w)
    IN  IF lastVowel = NULL THEN TRUE ELSE lastVowel \in VOWELS.front

endsWithVoicelessConsonant(w) ==
    LET lastChar == LastCharLower(w)
    IN  Len(lastChar) = 1 /\ lastChar[1] \in CONSONANTS.voiceless

getConsonantD(w) == IF endsWithVoicelessConsonant(w) THEN "t" ELSE "d"

\* mutant: the consonant placeholder is left in the result
RECURSIVE ResolveTemplate_NoD(_, _, _)
ResolveTemplate_NoD(stem, lastVowel, template) ==
    IF template = <<>> THEN <<>>
    ELSE LET char == Head(template)
             out == CASE char = "A" -> getTwoWayHarmony(lastVowel)
                      [] char = "I" -> getFourWayHarmony(lastVowel)
                      [] OTHER -> char
         IN  <<out>> \o ResolveTemplate_NoD(stem, lastVowel, Tail(template))

RECURSIVE ResolveTemplate(_, _, _)
ResolveTemplate(stem, lastVowel, template) ==
    IF template = <<>> THEN <<>>
    ELSE LET char == Head(template)
             out == CASE char = "A" -> getTwoWayHarmony(lastVowel)
                      [] char = "I" -> getFourWayHarmony(lastVowel)
                      [] char = "D" -> getConsonantD(stem)
                      [] OTHER -> char
         IN  <<out>> \o ResolveTemplate(stem, lastVowel, Tail(template))

applySuffix(stem, suffixTemplate) ==
    LET lastVowel == getLastVowel(stem)
    IN  IF lastVowel = NULL THEN stem \o suffixTemplate
        ELSE stem \o ResolveTemplate(stem, lastVowel, suffixTemplate)

\* mutant: the last three characters are removed whatever they are
getVerbRoot_AlwaysStrip(inf) == DropLast(inf, 3)

getVerbRoot(inf) ==
    LET lower == toLowerCase(inf)
    IN  IF EndsWith(lower, <<"m","e","k">>) \/ EndsWith(lower, <<"m","a","k">>)
        THEN DropLast(inf, 3)
        ELSE inf

rootEndsInVowel(root) ==
    LET lastChar == LastCharLower(root)
    IN  Len(lastChar) = 1 /\ lastChar[1] \in VOWELS.all

(***************************************************************************)
(* Suffix patterns.  Every regular expression of the tables ends in $ and  *)
(* is a finite union of fixed-length runs of character classes, so a       *)
(* pattern is the set of its alternatives, each a sequence of classes.     *)
(* The words matched are already lowercased, which makes the i flag        *)
(* irrelevant.                                                             *)
(***************************************************************************)
I4 == {"i0", "i", "u", "u:"}      \* [ıiuü]
AE == {"a", "e"}                  \* [ae]

Lit(s) == [i \in DOMAIN s |-> {s[i]}]
Opt(c) == {<<>>, <<{c}>>}         \* c?
Cat(S, T) == {s \o t : s \in S, t \in T}

DI  == {<<{"d"}, I4>>, <<{"t"}, I4>>}                   \* (d[ıiuü]|t[ıiuü])
FUT == Cat(Opt("y"), {<<AE, {"c"}, AE, {"k", "g^"}>>})  \* (y?[ae]c[ae][kğ])
AOR == {<<I4, {"r"}>>, <<AE, {"r"}>>}                   \* ([ıiuü]r|[ae]r)
OPT == Cat(Opt("y"), {<<AE>>})                          \* (y?[ae])
MIS == {<<{"m"}, I4, {"s,"}>>}                          \* m[ıiuü]ş
MAZ == {<<{"m"}, AE, {"z"}>>}                           \* m[ae]z
SA  == {<<{"s"}, AE>>}                                  \* s[ae]
MALI == {<<{"m"}, AE, {"l"}, I4>>}                      \* m[ae]l[ıiuü]
IYOR == {<<I4, {"y"}, {"o"}, {"r"}>>}                   \* ([ıiuü])yor
MIYOR == {<<{"m"}, I4, {"y"}, {"o"}, {"r"}>>}           \* m([ıiuü])yor

VP(alts, t, p, neg) == [alts |-> alts, tense |-> t, person |-> p, negative |-> neg]
NP(alts, sfx) == [alts |-> alts, suffix |-> sfx]

VERB_TENSE_PATTERNS == <<
    \* Present continuous: -iyor + person
    VP(Cat(IYOR, {Lit(<<"u","m">>)}), "present", "1sg", FALSE),
    VP(Cat(IYOR, {Lit(<<"s","u","n">>)}), "present", "2sg", FALSE),
    VP(IYOR, "present", "3sg", FALSE),
    VP(Cat(IYOR, {Lit(<<"u","z">>)}), "present", "1pl", FALSE),
    VP(Cat(IYOR, {Lit(<<"s","u","n","u","z">>)}), "present", "2pl", FALSE),
    VP(Cat(IYOR, {Lit(<<"l","a","r">>)}), "present", "3pl", FALSE),
    \* Present continuous negative: -miyor
    VP(Cat(MIYOR, {Lit(<<"u","m">>)}), "present", "1sg", TRUE),
    VP(Cat(MIYOR, {Lit(<<"s","u","n">>)}), "present", "2sg", TRUE),
    VP(MIYOR, "present", "3sg", TRUE),
    VP(Cat(MIYOR, {Lit(<<"u","z">>)}), "present", "1pl", TRUE),
    VP(Cat(MIYOR, {Lit(<<"s","u","n","u","z">>)}), "present", "2pl", TRUE),
    VP(Cat(MIYOR, {Lit(<<"l","a","r">>)}), "present", "3pl", TRUE),
    \* Simple past: -di + person
    VP(Cat(DI, {<<{"m"}>>}), "past", "1sg", FALSE),
    VP(Cat(DI, {<<{"n"}>>}), "past", "2sg", FALSE),
    VP(DI, "past", "3sg", FALSE),
    VP(Cat(DI, {<<{"k"}>>}), "past", "1pl", FALSE),
    VP(Cat(DI, {<<{"n"}, I4, {"z"}>>}), "past", "2pl", FALSE),
    VP(Cat(DI, {<<{"l"}, AE, {"r"}>>}), "past", "3pl", FALSE),
    \* Future: -ecek + person
    VP(Cat(FUT, {<<I4, {"m"}>>}), "future", "1sg", FALSE),
    VP(Cat(FUT, {<<{"s"}, I4, {"n"}>>}), "future", "2sg", FALSE),
    VP(FUT, "future", "3sg", FALSE),
    VP(Cat(FUT, {<<I4, {"z"}>>}), "future", "1pl", FALSE),
    VP(Cat(FUT, {<<{"s"}, I4, {"n"}, I4, {"z"}>>}), "future", "2pl", FALSE),
    VP(Cat(FUT, {<<{"l"}, AE, {"r"}>>}), "future", "3pl", FALSE),
    \* Reported past: -mis + person
    VP(Cat(MIS, {<<I4, {"m"}>>}), "reported", "1sg", FALSE),
    VP(Cat(MIS, {<<{"s"}, I4, {"n"}>>}), "reported", "2sg", FALSE),
    VP(MIS, "reported", "3sg", FALSE),
    VP(Cat(MIS, {<<I4, {"z"}>>}), "reported", "1pl", FALSE),
    VP(Cat(MIS, {<<{"s"}, I4, {"n"}, I4, {"z"}>>}), "reported", "2pl", FALSE),
    VP(Cat(MIS, {<<{"l"}, AE, {"r"}>>}), "reported", "3pl", FALSE),
    \* Aorist: -ir/-er/-ar + person
    VP(Cat(AOR, {<<I4, {"m"}>>}), "aorist", "1sg", FALSE),
    VP(Cat(AOR, {<<{"s"}, I4, {"n"}>>}), "aorist", "2sg", FALSE),
    VP(AOR, "aorist", "3sg", FALSE),
    VP(Cat(AOR, {<<I4, {"z"}>>}), "aorist", "1pl", FALSE),
    VP(Cat(AOR, {<<{"s"}, I4, {"n"}, I4, {"z"}>>}), "aorist", "2pl", FALSE),
    VP(Cat(AOR, {<<{"l"}, AE, {"r"}>>}), "aorist", "3pl", FALSE),
    \* Aorist negative: -mez/-maz
    VP({<<{"m"}, AE, {"m"}>>}, "aorist", "1sg", TRUE),
    VP(Cat(MAZ, {<<{"s"}, I4, {"n"}>>}), "aorist", "2sg", TRUE),
    VP(MAZ, "aorist", "3sg", TRUE),
    VP({<<{"m"}, AE, {"y"}, I4, {"z"}>>}, "aorist", "1pl", TRUE),
    VP(Cat(MAZ, {<<{"s"}, I4, {"n"}, I4, {"z"}>>}), "aorist", "2pl", TRUE),
    VP(Cat(MAZ, {<<{"l"}, AE, {"r"}>>}), "aorist", "3pl", TRUE),
    \* Conditional: -se + person
    VP(Cat(SA, {<<{"m"}>>}), "conditional", "1sg", FALSE),
    VP(Cat(SA, {<<{"n"}>>}), "conditional", "2sg", FALSE),
    VP(SA, "conditional", "3sg", FALSE),
    VP(Cat(SA, {<<{"k"}>>}), "conditional", "1pl", FALSE),
    VP(Cat(SA, {<<{"n"}, I4, {"z"}>>}), "conditional", "2pl", FALSE),
    VP(Cat(SA, {<<{"l"}, AE, {"r"}>>}), "conditional", "3pl", FALSE),
    \* Necessitative: -meli + person
    VP(Cat(MALI, {<<{"y"}, I4, {"m"}>>}), "necessitative", "1sg", FALSE),
    VP(Cat(MALI, {<<{"s"}, I4, {"n"}>>}), "necessitative", "2sg", FALSE),
    VP(MALI, "necessitative", "3sg", FALSE),
    VP(Cat(MALI, {<<{"y"}, I4, {"z"}>>}), "necessitative", "1pl", FALSE),
    VP(Cat(MALI, {<<{"s"}, I4, {"n"}, I4, {"z"}>>}), "necessitative", "2pl", FALSE),
    VP(Cat(MALI, {<<{"l"}, AE, {"r"}>>}), "necessitative", "3pl", FALSE),
    \* Optative: -e/-a + person
    VP(Cat(OPT, {<<{"y"}, I4, {"m"}>>}), "optative", "1sg", FALSE),
    VP(Cat(OPT, {<<{"s"}, I4, {"n"}>>}), "optative", "2sg", FALSE),
    VP(OPT, "optative", "3sg", FALSE),
    VP(Cat(OPT, {<<{"l"}, I4, {"m"}>>}), "optative", "1pl", FALSE),
    VP(Cat(OPT, {<<{"s"}, I4, {"n"}, I4, {"z"}>>}), "optative", "2pl", FALSE),
    VP(Cat(OPT, {<<{"l"}, AE, {"r"}>>}), "optative", "3pl", FALSE),
    \* Imperative
    VP({<<{"s"}, I4, {"n"}>>}, "imperative", "3sg", FALSE),
    VP({<<I4, {"n"}>>, <<{"y"}, I4, {"n"}>>}, "imperative", "2pl", FALSE),
    VP({<<I4, {"n"}, I4, {"z"}>>, <<{"y"}, I4, {"n"}, I4, {"z"}>>}, "imperative", "2pl", FALSE),
    VP({<<{"s"}, I4, {"n"}, {"l"}, AE, {"r"}>>}, "imperative", "3pl", FALSE)
>>

\* mutant: the ablative pattern without its voiceless alternative
ABLATIVE_VoicedOnly == {<<{"d"}, AE, {"n"}>>}

ABLATIVE == {<<{"d"}, AE, {"n"}>>, <<{"t"}, AE, {"n"}>>}   \* (d[ae]n|t[ae]n)
LOCATIVE == {<<{"d"}, AE>>, <<{"t"}, AE>>}                 \* (d[ae]|t[ae])

NOUN_CASE_PATTERNS == <<
    \* Ablative (must come before locative - longer pattern)
    NP(ABLATIVE, "ablative"),
    NP(LOCATIVE, "locative"),
    NP({<<{"n"}, I4, {"n"}>>, <<I4, {"n"}>>}, "genitive"),
    NP({<<{"n"}, I4>>, <<{"y"}, I4>>, <<I4>>}, "accusative"),
    NP({<<{"n"}, AE>>, <<{"y"}, AE>>, <<AE>>}, "dative"),
    NP({<<{"l"}, AE, {"r"}>>}, "plural")
>>

POSSESSIVE_PATTERNS == <<
    NP({<<I4, {"m"}>>, <<{"m"}>>}, "poss1sg"),
    NP({<<I4, {"n"}>>, <<{"n"}>>}, "poss2sg"),
    NP({<<{"s"}, I4>>, <<I4>>}, "poss3sg"),
    NP({<<I4, {"m"}, I4, {"z"}>>, <<{"m"}, I4, {"z"}>>}, "poss1pl"),
    NP({<<I4, {"n"}, I4, {"z"}>>, <<{"n"}, I4, {"z"}>>}, "poss2pl"),
    NP({<<{"l"}, AE, {"r"}, I4>>}, "poss3pl")
>>

\* The alternative alt matches lower from 0-based position i up to the end.
AltMatchesAt(lower, alt, i) ==
    /\ i >= 0
    /\ Len(alt) = Len(lower) - i
    /\ \A j \in 1..Len(alt) : lower[i + j] \in alt[j]

\* lower.match(pattern): the index of the leftmost match, -1 for null.  The
\* match always extends to the end of the word because of the $ anchor.
MatchIndex(lower, alts) ==
    LET hits == {Len(lower) - Len(alt) :
                    alt \in {a \in alts : AltMatchesAt(lower, a, Len(lower) - Len(a))}}
    IN  IF hits = {} THEN -1 ELSE CHOOSE i \in hits : \A j \in hits : i <= j

\* lower.replace(pattern, '') when the pattern matches at index i
StripAt(lower, i) == SubSeq(lower, 1, i)

(***************************************************************************)
(* Deinflection engine                                                     *)
(***************************************************************************)
\* Object.entries order of the three tables
CONSONANT_SOFTENING_VERBS == <<
    <<<<"g","i","d">>, <<"g","i","t">>>>,
    <<<<"e","d">>, <<"e","t">>>>,
    <<<<"t","a","d">>, <<"t","a","t">>>>,
    <<<<"g","u:","d">>, <<"g","u:","t">>>>,
    <<<<"d","i","d">>, <<"d","i","t">>>> >>

VOWEL_CONTRACTION_TO_ROOT == <<
    <<<<"y","i">>, <<"y","e">>>>,
    <<<<"d","i">>, <<"d","e">>>> >>

IRREGULAR_AORIST_TO_ROOT == <<
    <<<<"g","i","d","e","r">>, <<"g","i","t">>>>,
    <<<<"e","d","e","r">>, <<"e","t">>>>,
    <<<<"t","a","d","a","r">>, <<"t","a","t">>>>,
    <<<<"y","e","r">>, <<"y","e">>>>,
    <<<<"d","e","r">>, <<"d","e">>>> >>

SUFFIX_LABELS ==
    [s \in {"present", "past", "future", "aorist", "reported", "conditional",
            "necessitative", "optative", "imperative", "negative",
            "1sg", "2sg", "3sg", "1pl", "2pl", "3pl",
            "accusative", "dative", "locative", "ablative", "genitive", "plural",
            "poss1sg", "poss2sg", "poss3sg", "poss1pl", "poss2pl", "poss3pl"} |->
        CASE s = "present" -> "simdiki zaman"
          [] s = "past" -> "di'li gecmis"
          [] s = "future" -> "gelecek zaman"
          [] s = "aorist" -> "genis zaman"
          [] s = "reported" -> "mis'li gecmis"
          [] s = "conditional" -> "sart kipi"
          [] s = "necessitative" -> "gereklilik"
          [] s = "optative" -> "istek kipi"
          [] s = "imperative" -> "emir kipi"
          [] s = "negative" -> "olumsuz"
          [] s = "1sg" -> "1. tekil (ben)"
          [] s = "2sg" -> "2. tekil (sen)"
          [] s = "3sg" -> "3. tekil (o)"
          [] s = "1pl" -> "1. cogul (biz)"
          [] s = "2pl" -> "2. cogul (siz)"
          [] s = "3pl" -> "3. cogul (onlar)"
          [] s = "accusative" -> "belirtme hali (-i)"
          [] s = "dative" -> "yonelme hali (-e)"
          [] s = "locative" -> "bulunma hali (-de)"
          [] s = "ablative" -> "ayrilma hali (-den)"
          [] s = "genitive" -> "tamlayan (-in)"
          [] s = "plural" -> "cogul (-ler)"
          [] s = "poss1sg" -> "iyelik 1. tekil (-im)"
          [] s = "poss2sg" -> "iyelik 2. tekil (-in)"
          [] s = "poss3sg" -> "iyelik 3. tekil (-i)"
          [] s = "poss1pl" -> "iyelik 1. cogul (-imiz)"
          [] s = "poss2pl" -> "iyelik 2. cogul (-iniz)"
          [] s = "poss3pl" -> "iyelik 3. cogul (-leri)"]

getSuffixLabel(suffix) ==
    IF suffix \in DOMAIN SUFFIX_LABELS THEN SUFFIX_LABELS[suffix] ELSE suffix

\* First entry of an ordered table whose key the root equals or ends with
FirstEntry(entries, root, allowSuffix) ==
    LET hits == {k \in 1..Len(entries) :
                    \/ root = entries[k][1]
                    \/ allowSuffix /\ EndsWith(root, entries[k][1])}
    IN  IF hits = {} THEN 0 ELSE CHOOSE k \in hits : \A j \in hits : k <= j

applyIrregularVerbRules(root) ==
    LET soft == FirstEntry(CONSONANT_SOFTENING_VERBS, root, TRUE)
        contr == FirstEntry(VOWEL_CONTRACTION_TO_ROOT, root, FALSE)
        aor == FirstEntry(IRREGULAR_AORIST_TO_ROOT, root, TRUE)
    IN  IF soft # 0
        THEN DropLast(root, Len(CONSONANT_SOFTENING_VERBS[soft][1]))
                \o CONSONANT_SOFTENING_VERBS[soft][2]
        ELSE IF contr # 0
        THEN VOWEL_CONTRACTION_TO_ROOT[contr][2]
        ELSE IF aor # 0
        THEN DropLast(root, Len(IRREGULAR_AORIST_TO_ROOT[aor][1]))
                \o IRREGULAR_AORIST_TO_ROOT[aor][2]
        ELSE root

getInfinitiveEnding(root) ==
    LET lastVowel == getLastVowel(root)
    IN  IF lastVowel # NULL /\ lastVowel \in VOWELS.back
        THEN <<"m","a","k">> ELSE <<"m","e","k">>

Labels(suffixes) == [i \in DOMAIN suffixes |-> getSuffixLabel(suffixes[i])]

\* The result pushed for a verb pattern that matches at index i
VerbResult(w, lower, rule, i) ==
    LET root == applyIrregularVerbRules(StripAt(lower, i))
        inf == root \o getInfinitiveEnding(root)
        suffixes == (IF rule.negative THEN <<"negative">> ELSE <<>>)
                        \o <<rule.tense>>
                        \o (IF rule.person # NULL THEN <<rule.person>> ELSE <<>>)
    IN  [dictionaryForm |-> inf, originalWord |-> w, suffixes |-> suffixes,
         suffixLabels |-> Labels(suffixes), possiblePos |-> <<"verb">>]

\* The result pushed for a noun-case or possessive pattern
NounResult(w, root, rule, pos) ==
    [dictionaryForm |-> root, originalWord |-> w, suffixes |-> <<rule.suffix>>,
     suffixLabels |-> Labels(<<rule.suffix>>), possiblePos |-> pos]

\* Minimum length of the root a noun-case or possessive pattern may leave
MinNounRoot == 2

\* mutant: the verb loop prepends instead of appending
RECURSIVE VerbResults_Prepend(_, _, _)
VerbResults_Prepend(w, lower, k) ==
    IF k > Len(VERB_TENSE_PATTERNS) THEN <<>>
    ELSE VerbResults_Prepend(w, lower, k + 1)
            \o (IF MatchIndex(lower, VERB_TENSE_PATTERNS[k].alts) >= 0
                THEN <<VerbResult(w, lower, VERB_TENSE_PATTERNS[k],
                                  MatchIndex(lower, VERB_TENSE_PATTERNS[k].alts))>>
                ELSE <<>>)

RECURSIVE VerbResults(_, _, _)
VerbResults(w, lower, k) ==
    IF k > Len(VERB_TENSE_PATTERNS) THEN <<>>
    ELSE LET rule == VERB_TENSE_PATTERNS[k]
             i == MatchIndex(lower, rule.alts)
         IN  (IF i >= 0 THEN <<VerbResult(w, lower, rule, i)>> ELSE <<>>)
                \o VerbResults(w, lower, k + 1)

\* mutant: a noun root of any length is accepted
RECURSIVE NounResults_AnyRoot(_, _, _, _, _)
NounResults_AnyRoot(w, lower, patterns, pos, k) ==
    IF k > Len(patterns) THEN <<>>
    ELSE (IF MatchIndex(lower, patterns[k].alts) >= 0
          THEN <<NounResult(w, StripAt(lower, MatchIndex(lower, patterns[k].alts)),
                            patterns[k], pos)>>
          ELSE <<>>)
            \o NounResults_AnyRoot(w, lower, patterns, pos, k + 1)

RECURSIVE NounResults(_, _, _, _, _)
NounResults(w, lower, patterns, pos, k) ==
    IF k > Len(patterns) THEN <<>>
    ELSE LET rule == patterns[k]
             i == MatchIndex(lower, rule.alts)
         IN  (IF i >= MinNounRoot
              THEN <<NounResult(w, StripAt(lower, i), rule, pos)>> ELSE <<>>)
                \o NounResults(w, lower, patterns, pos, k + 1)

IdentityResult(w, lower) ==
    [dictionaryForm |-> lower, originalWord |-> w, suffixes |-> <<>>,
     suffixLabels |-> <<>>, possiblePos |-> <<"noun", "verb", "adjective", "adverb">>]

\* mutant: the identity fallback is missing
deinflectResults_NoFallback(w) ==
    LET lower == toLowerCase(w)
    IN  VerbResults(w, lower, 1)
            \o NounResults(w, lower, NOUN_CASE_PATTERNS,
                           <<"noun", "adjective", "proper-noun">>, 1)
            \o NounResults(w, lower, POSSESSIVE_PATTERNS,
                           <<"noun", "adjective">>, 1)

\* The results array as it stands before the final filter
deinflectResults(w) ==
    LET lower == toLowerCase(w)
        found == VerbResults(w, lower, 1)
                    \o NounResults(w, lower, NOUN_CASE_PATTERNS,
                                   <<"noun", "adjective", "proper-noun">>, 1)
                    \o NounResults(w, lower, POSSESSIVE_PATTERNS,
                                   <<"noun", "adjective">>, 1)
    IN  IF Len(found) = 0 THEN <<IdentityResult(w, lower)>> ELSE found

\* mutant: the filter keeps every result
RemoveDuplicates_KeepAll(rs, seen) == rs

\* results.filter with the seen set
RECURSIVE RemoveDuplicates(_, _)
RemoveDuplicates(rs, seen) ==
    IF rs = <<>> THEN <<>>
    ELSE IF Head(rs).dictionaryForm \in seen
         THEN RemoveDuplicates(Tail(rs), seen)
         ELSE <<Head(rs)>> \o RemoveDuplicates(Tail(rs), seen \cup {Head(rs).dictionaryForm})

deinflect(w) == RemoveDuplicates(deinflectResults(w), {})

(***************************************************************************)
(* Conjugation engine                                                      *)
(***************************************************************************)
IRREGULAR_AORIST ==
    {<<"g","i","t">>, <<"e","t">>, <<"t","a","t">>}

\* keys of the contraction table
VOWEL_CONTRACTION_VERBS == <<
    <<<<"y","e">>, <<"y","i">>>>,
    <<<<"d","e">>, <<"d","i">>>> >>

CONSONANT_SOFTENING_ROOTS ==
    {<<"g","i","t">>, <<"e","t">>, <<"t","a","t">>, <<"g","u:","t">>, <<"d","i","t">>}

PERSON_SUFFIXES ==
    [type1 |-> [ben |-> <<"I","m">>, sen |-> <<"s","I","n">>, o |-> <<>>,
                biz |-> <<"I","z">>, siz |-> <<"s","I","n","I","z">>,
                onlar |-> <<"l","A","r">>],
     type2 |-> [ben |-> <<"m">>, sen |-> <<"n">>, o |-> <<>>,
                biz |-> <<"k">>, siz |-> <<"n","I","z">>,
                onlar |-> <<"l","A","r">>],
     type3 |-> [ben |-> <<"u","m">>, sen |-> <<"s","u","n">>, o |-> <<>>,
                biz |-> <<"u","z">>, siz |-> <<"s","u","n","u","z">>,
                onlar |-> <<"l","a","r">>]]

Persons == <<"ben", "sen", "o", "biz", "siz", "onlar">>

SIMPLE_TENSES ==
    <<"present", "past", "future", "aorist", "reported",
      "conditional", "necessitative", "optative", "imperative">>

COMPOUND_TENSES ==
    <<"pastContinuous", "futurePast", "pastReported", "aoristPast",
      "pastContinuousReported">>

ALL_TENSES == SIMPLE_TENSES \o COMPOUND_TENSES

\* labelTr is written with the letters outside ASCII transliterated
TENSE_INFO ==
    [present |-> [label |-> "Present Continuous", labelTr |-> "Simdiki Zaman"],
     past |-> [label |-> "Simple Past", labelTr |-> "Di'li Gecmis"],
     future |-> [label |-> "Future", labelTr |-> "Gelecek Zaman"],
     aorist |-> [label |-> "Simple Present (Aorist)", labelTr |-> "Genis Zaman"],
     reported |-> [label |-> "Reported Past", labelTr |-> "Mis'li Gecmis"],
     conditional |-> [label |-> "Conditional", labelTr |-> "Sart Kipi"],
     necessitative |-> [label |-> "Necessitative", labelTr |-> "Gereklilik Kipi"],
     optative |-> [label |-> "Optative", labelTr |-> "Istek Kipi"],
     imperative |-> [label |-> "Imperative", labelTr |-> "Emir Kipi"],
     pastContinuous |-> [label |-> "Past Continuous", labelTr |-> "Simdiki Zamanin Hikayesi"],
     futurePast |-> [label |-> "Future in Past", labelTr |-> "Gelecek Zamanin Hikayesi"],
     pastReported |-> [label |-> "Past Reported", labelTr |-> "Mis'li Gecmisin Hikayesi"],
     aoristPast |-> [label |-> "Aorist Past", labelTr |-> "Genis Zamanin Hikayesi"],
     pastContinuousReported |->
        [label |-> "Past Continuous Reported", labelTr |-> "Simdiki Zamanin Rivayeti"]]

RECURSIVE HarmonizeChars(_, _)
HarmonizeChars(lastVowel, template) ==
    IF template = <<>> THEN <<>>
    ELSE LET char == Head(template)
             out == CASE char = "A" -> getTwoWayHarmony(lastVowel)
                      [] char = "I" -> getFourWayHarmony(lastVowel)
                      [] OTHER -> char
         IN  <<out>> \o HarmonizeChars(lastVowel, Tail(template))

\* getLastVowel(stem) || 'e'
LastVowelOrE(found) == IF found = NULL THEN "e" ELSE found

harmonize(stem, template) ==
    HarmonizeChars(LastVowelOrE(getLastVowel(stem)), template)

\* The words "constructor" and "__proto__" are properties every object
\* inherits, so the in operator finds them in the table; the lookup yields
\* the Object function or the prototype object, whose string conversion
\* then stands for the contracted root.
OBJECT_CONSTRUCTOR == <<"c","o","n","s","t","r","u","c","t","o","r">>
OBJECT_SOURCE ==
    <<"f","u","n","c","t","i","o","n"," ","O","b","j","e","c","t","(",")"," ",
      "{"," ","[","n","a","t","i","v","e"," ","c","o","d","e","]"," ","}">>
OBJECT_PROTO == <<"_","_","p","r","o","t","o","_","_">>
OBJECT_PROTO_SOURCE ==
    <<"[","o","b","j","e","c","t"," ","O","b","j","e","c","t","]">>

hasVowelContraction(root) ==
    LET lower == toLowerCase(root)
    IN  \/ \E k \in 1..Len(VOWEL_CONTRACTION_VERBS) : VOWEL_CONTRACTION_VERBS[k][1] = lower
        \/ lower = OBJECT_CONSTRUCTOR
        \/ lower = OBJECT_PROTO

getContractedRoot(root) ==
    LET lower == toLowerCase(root)
        hits == {k \in 1..Len(VOWEL_CONTRACTION_VERBS) : VOWEL_CONTRACTION_VERBS[k][1] = lower}
    IN  IF hits # {} THEN VOWEL_CONTRACTION_VERBS[CHOOSE k \in hits : TRUE][2]
        ELSE IF lower = OBJECT_CONSTRUCTOR THEN OBJECT_SOURCE
        ELSE IF lower = OBJECT_PROTO THEN OBJECT_PROTO_SOURCE
        ELSE root

requiresConsonantSoftening(root) == toLowerCase(root) \in CONSONANT_SOFTENING_ROOTS

softenConsonant(root) ==
    IF EndsWith(root, <<"t">>) THEN DropLast(root, 1) \o <<"d">> ELSE root

monosyllabicIrVerbs ==
    {<<"a","l">>, <<"b","i","l">>, <<"b","u","l">>, <<"d","u","r">>, <<"g","e","l">>,
     <<"g","o:","r">>, <<"k","a","l">>, <<"o","l">>, <<"o:","l">>, <<"s","a","n">>,
     <<"v","a","r">>, <<"v","e","r">>, <<"v","u","r">>}

\* root.match(/[aeıioöuü]/gi): case-insensitive, and without the u flag the
\* capital I matches i but the dotted capital matches nothing
VowelCount(root) ==
    Cardinality({i \in 1..Len(root) :
        root[i] # "I." /\ LowerChar(root[i])[1] \in VOWELS.all})

\* mutant: the exception list of one-vowel roots is not consulted
getAoristSuffix_NoExceptions(root) ==
    IF requiresConsonantSoftening(root) THEN <<"A","r">>
    ELSE IF rootEndsInVowel(root) THEN <<"r">>
    ELSE IF VowelCount(root) = 1 THEN <<"A","r">>
    ELSE <<"I","r">>

getAoristSuffix(root) ==
    IF requiresConsonantSoftening(root) THEN <<"A","r">>
    ELSE IF rootEndsInVowel(root) THEN <<"r">>
    ELSE IF VowelCount(root) = 1 /\ toLowerCase(root) \notin monosyllabicIrVerbs
         THEN <<"A","r">>
         ELSE <<"I","r">>

getAoristStem(root) ==
    IF requiresConsonantSoftening(root) THEN softenConsonant(root) ELSE root

\* mutant: the negative marker is always the front one
Negated_Front(root) == root \o <<"m","e">>

Negated(root) == root \o harmonize(root, <<"m","A">>)

\* mutant: the contraction is applied whatever the polarity
PresentForm_ContractAlways(root, p, negative) ==
    IF hasVowelContraction(root)
    THEN getContractedRoot(root) \o <<"y","o","r">> \o PERSON_SUFFIXES.type3[p]
    ELSE LET stem == IF negative
                     THEN root \o harmonize(root, IF rootEndsInVowel(root)
                                                  THEN <<"m">> ELSE <<"m","I">>)
                     ELSE IF rootEndsInVowel(root) THEN DropLast(root, 1)
                     ELSE root
             base == stem \o (IF rootEndsInVowel(stem) THEN <<>>
                              ELSE harmonize(stem, <<"I">>)) \o <<"y","o","r">>
         IN  base \o PERSON_SUFFIXES.type3[p]

\* case 'present'
PresentForm(root, p, negative) ==
    IF hasVowelContraction(root) /\ ~negative
    THEN getContractedRoot(root) \o <<"y","o","r">> \o PERSON_SUFFIXES.type3[p]
    ELSE LET stem == IF negative
                     THEN root \o harmonize(root, IF rootEndsInVowel(root)
                                                  THEN <<"m">> ELSE <<"m","I">>)
                     ELSE IF rootEndsInVowel(root) THEN DropLast(root, 1)
                     ELSE root
             base == stem \o (IF rootEndsInVowel(stem) THEN <<>>
                              ELSE harmonize(stem, <<"I">>)) \o <<"y","o","r">>
         IN  base \o PERSON_SUFFIXES.type3[p]

\* mutant: the past marker is always voiced
PastForm_AlwaysD(root, p, negative) ==
    LET stem == IF negative THEN Negated(root) ELSE root
        base == stem \o <<"d">> \o harmonize(stem, <<"I">>)
    IN  base \o harmonize(base, PERSON_SUFFIXES.type2[p])

\* case 'past'
PastForm(root, p, negative) ==
    LET stem == IF negative THEN Negated(root) ELSE root
        d == IF endsWithVoicelessConsonant(stem) THEN "t" ELSE "d"
        base == stem \o <<d>> \o harmonize(stem, <<"I">>)
    IN  base \o harmonize(base, PERSON_SUFFIXES.type2[p])

\* stem + y + harmonize(stem, 'AcAk'), shared by 'future' and 'futurePast'
FutureBase(root, negative) ==
    LET stem == IF negative THEN Negated(root) ELSE root
        y == IF rootEndsInVowel(stem) THEN <<"y">> ELSE <<>>
    IN  stem \o y \o harmonize(stem, <<"A","c","A","k">>)

\* aoristStem + harmonize(aoristStem, aoristSuffix), shared by 'aorist' and 'aoristPast'
AoristBase(root) ==
    LET aoristStem == getAoristStem(root)
    IN  aoristStem \o harmonize(aoristStem, getAoristSuffix(root))

\* case 'aorist'
AoristForm(root, p, negative) ==
    IF negative
    THEN LET negBase == Negated(root)
         IN  IF p = "o" THEN negBase \o <<"z">>
             ELSE negBase \o harmonize(negBase, PERSON_SUFFIXES.type1[p])
    ELSE LET base == AoristBase(root)
         IN  base \o harmonize(base, PERSON_SUFFIXES.type1[p])

\* the cases that are stem + harmonize(stem, marker) + harmonized person suffix
SuffixedForm(root, p, negative, marker, personType) ==
    LET stem == IF negative THEN Negated(root) ELSE root
        base == stem \o harmonize(stem, marker)
    IN  base \o harmonize(base, PERSON_SUFFIXES[personType][p])

optativePersons ==
    [ben |-> <<"y","I","m">>, sen |-> <<"s","I","n">>, o |-> <<>>,
     biz |-> <<"l","I","m">>, siz |-> <<"s","I","n","I","z">>, onlar |-> <<"l","A","r">>]

\* case 'optative'
OptativeForm(root, p, negative) ==
    LET stem == IF negative THEN Negated(root) ELSE root
        y == IF rootEndsInVowel(stem) THEN <<"y">> ELSE <<>>
        base == stem \o y \o harmonize(stem, <<"A">>)
    IN  base \o harmonize(base, optativePersons[p])

imperativeEndings ==
    [ben |-> <<>>, sen |-> <<>>, o |-> <<"s","I","n">>, biz |-> <<"l","I","m">>,
     siz |-> <<"(","y",")","I","n">>, onlar |-> <<"s","I","n","l","A","r">>]

\* case 'imperative'
ImperativeForm(root, p, negative) ==
    LET stem == IF negative THEN Negated(root) ELSE root
    IN  IF p = "ben" THEN <<>>
        ELSE IF p = "siz"
        THEN stem \o harmonize(stem, IF rootEndsInVowel(stem)
                                     THEN <<"y","I","n">> ELSE <<"I","n">>)
        ELSE stem \o harmonize(stem, imperativeEndings[p])

\* mutant: the past layer takes the person suffixes of the first layer
StoryForm_Type1(base, d, p) ==
    base \o <<d>> \o harmonize(base, <<"I">>)
         \o harmonize(base \o <<d>> \o harmonize(base, <<"I">>), PERSON_SUFFIXES.type1[p])

\* base + pastSuffix + harmonize(base + pastSuffix, type2 person suffix)
StoryForm(base, d, p) ==
    LET pastSuffix == <<d>> \o harmonize(base, <<"I">>)
    IN  base \o pastSuffix \o harmonize(base \o pastSuffix, PERSON_SUFFIXES.type2[p])

\* cases 'pastContinuous' and 'pastContinuousReported': the suffixes that
\* follow baseWithYor
YorSuffixed(baseWithYor, reportedSuffix, p, reported) ==
    IF reported
    THEN baseWithYor \o reportedSuffix
            \o harmonize(baseWithYor \o reportedSuffix, PERSON_SUFFIXES.type1[p])
    ELSE StoryForm(baseWithYor, "d", p)

YorBase(baseWithYor, p, reported) ==
    YorSuffixed(baseWithYor, harmonize(baseWithYor, <<"m","I","s,">>), p, reported)

YorSplit(presentBase, yorIndex, p, reported) ==
    IF yorIndex = -1 THEN presentBase
    ELSE YorBase(SubSeq(presentBase, 1, yorIndex + 3), p, reported)

YorFrom(presentBase, p, reported) ==
    YorSplit(presentBase, LastIndexOf(presentBase, <<"y","o","r">>), p, reported)

YorCompound(root, p, negative, reported) ==
    YorFrom(PresentForm(root, p, negative), p, reported)

\* case 'future'
FutureForm(root, p, negative) ==
    LET base == FutureBase(root, negative)
    IN  base \o harmonize(base, PERSON_SUFFIXES.type1[p])

\* case 'pastReported'
PastReportedForm(root, p, negative) ==
    LET stem == IF negative THEN Negated(root) ELSE root
    IN  StoryForm(stem \o harmonize(stem, <<"m","I","s,">>), "t", p)

\* case 'aoristPast'
AoristPastForm(root, p, negative) ==
    IF negative THEN StoryForm(Negated(root) \o <<"z">>, "d", p)
    ELSE StoryForm(AoristBase(root), "d", p)

conjugateForm(root, t, p, negative) ==
    IF t = "present" THEN PresentForm(root, p, negative)
    ELSE IF t = "past" THEN PastForm(root, p, negative)
    ELSE IF t = "future" THEN FutureForm(root, p, negative)
    ELSE IF t = "aorist" THEN AoristForm(root, p, negative)
    ELSE IF t = "reported" THEN SuffixedForm(root, p, negative, <<"m","I","s,">>, "type1")
    ELSE IF t = "conditional" THEN SuffixedForm(root, p, negative, <<"s","A">>, "type2")
    ELSE IF t = "necessitative" THEN SuffixedForm(root, p, negative, <<"m","A","l","I">>, "type1")
    ELSE IF t = "optative" THEN OptativeForm(root, p, negative)
    ELSE IF t = "imperative" THEN ImperativeForm(root, p, negative)
    ELSE IF t = "pastContinuous" THEN YorCompound(root, p, negative, FALSE)
    ELSE IF t = "futurePast" THEN StoryForm(FutureBase(root, negative), "t", p)
    ELSE IF t = "pastReported" THEN PastReportedForm(root, p, negative)
    ELSE IF t = "aoristPast" THEN AoristPastForm(root, p, negative)
    ELSE IF t = "pastContinuousReported" THEN YorCompound(root, p, negative, TRUE)
    ELSE root

\* mutant: the particle is fused into the form
makeQuestion_Fused(conjugatedForm) ==
    LET found == getLastVowel(conjugatedForm)
        lastVowel == IF found = NULL THEN "i" ELSE found
    IN  conjugatedForm \o <<"m", getFourWayHarmony(lastVowel), "?">>

makeQuestion(conjugatedForm) ==
    LET found == getLastVowel(conjugatedForm)
        lastVowel == IF found = NULL THEN "i" ELSE found
    IN  conjugatedForm \o <<" ", "m", getFourWayHarmony(lastVowel), "?">>

\* result[person] of getPersonForms
PersonFormOf(positive, negative) ==
    [positive |-> positive, negative |-> negative,
     question |-> makeQuestion(positive),
     negativeQuestion |-> makeQuestion(negative)]

PersonForm(root, t, p) ==
    PersonFormOf(conjugateForm(root, t, p, FALSE), conjugateForm(root, t, p, TRUE))

getPersonForms(root, t) ==
    [p \in {Persons[i] : i \in 1..Len(Persons)} |-> PersonForm(root, t, p)]

\* one element of tenseConjugations
TenseConjugation(root, t) ==
    [tense |-> t, label |-> TENSE_INFO[t].label, labelTr |-> TENSE_INFO[t].labelTr,
     forms |-> getPersonForms(root, t)]

\* the table built for a root already extracted from the infinitive
TableOf(inf, root, tenses) ==
    [infinitive |-> inf, root |-> root,
     vowelType |-> IF isEType(root) THEN "e-type" ELSE "a-type",
     tenses |-> [k \in 1..Len(tenses) |-> TenseConjugation(root, tenses[k])]]

conjugateVerb(inf, includeCompound) ==
    TableOf(inf, getVerbRoot(inf),
            IF includeCompound THEN SIMPLE_TENSES \o COMPOUND_TENSES ELSE SIMPLE_TENSES)

getConjugation(inf, t, p, negative) == conjugateForm(getVerbRoot(inf), t, p, negative)

(***************************************************************************)
(* Lookup orchestration: the page load of a word, and fetchWordData of     *)
(* the sentence analyzer and of the analysis page.  A value that may be    *)
(* null is a sequence of no or one element.                                *)
(***************************************************************************)
IsSpace(c) == c = " "

\* \w of a regular expression without the u flag
WordChars ==
    {"a","b","c","d","e","f","g","h","i","j","k","l","m","n","o","p","q","r","s",
     "t","u","v","w","x","y","z","A","B","C","D","E","F","G","H","I","J","K","L",
     "M","N","O","P","Q","R","S","T","U","V","W","X","Y","Z","_",
     "0","1","2","3","4","5","6","7","8","9"}

RECURSIVE trimStart(_)
trimStart(s) == IF s # <<>> /\ IsSpace(Head(s)) THEN trimStart(Tail(s)) ELSE s

RECURSIVE trimEnd(_)
trimEnd(s) == IF s # <<>> /\ IsSpace(s[Len(s)]) THEN trimEnd(DropLast(s, 1)) ELSE s

normalizeForLookup(w) == trimEnd(trimStart(toLowerCase(w)))

\* the response of the word store for a key: the entry, or nothing
tryFetchWord(store, w) == IF w \in DOMAIN store THEN <<store[w]>> ELSE <<>>

findWord(store, q) == tryFetchWord(store, normalizeForLookup(q))

\* the first index after p + 1 that holds no white space, given g[p + 2] does
FirstAfterSpaces(g, p) ==
    CHOOSE q \in (p + 3)..(Len(g) + 1) :
        /\ \A j \in (p + 2)..(q - 1) : IsSpace(g[j])
        /\ q <= Len(g) => ~IsSpace(g[q])

\* /\bof\s+(\S+)$/i matches with "of" at index p
OfMatchesAt(g, p) ==
    /\ p + 3 <= Len(g)
    /\ g[p] \in {"o", "O"}
    /\ g[p + 1] \in {"f", "F"}
    /\ p = 1 \/ g[p - 1] \notin WordChars
    /\ IsSpace(g[p + 2])
    /\ FirstAfterSpaces(g, p) <= Len(g)
    /\ \A j \in FirstAfterSpaces(g, p)..Len(g) : ~IsSpace(g[j])

\* the word captured by the leftmost match
CapturedAt(g, p) == SubSeq(g, FirstAfterSpaces(g, p), Len(g))

extractBaseWordFromGloss(gloss) ==
    IF \E p \in 1..Len(gloss) : OfMatchesAt(gloss, p)
    THEN <<CapturedAt(gloss, CHOOSE p \in 1..Len(gloss) :
                /\ OfMatchesAt(gloss, p)
                /\ \A r \in 1..(p - 1) : ~OfMatchesAt(gloss, r))>>
    ELSE <<>>

isFormOfEntry(wordData) ==
    \E i \in DOMAIN wordData.senses : "form-of" \in wordData.senses[i].tags

\* wordData.senses?.[0]?.glosses?.[0], nothing when absent or empty
FirstGloss(wordData) ==
    IF wordData.senses # <<>> /\ wordData.senses[1].glosses # <<>>
            /\ wordData.senses[1].glosses[1] # <<>>
    THEN <<wordData.senses[1].glosses[1]>>
    ELSE <<>>

\* the base word named by a form-of entry, nothing when there is none
BaseWordOf(wordData) ==
    IF isFormOfEntry(wordData) /\ FirstGloss(wordData) # <<>>
    THEN extractBaseWordFromGloss(FirstGloss(wordData)[1])
    ELSE <<>>

\* the lookup a site performs: the page load goes through findWord
Lookup(s, store, w) == IF s = "load" THEN findWord(store, w) ELSE tryFetchWord(store, w)

\* s.includes(t)
Includes(s, t) == \E i \in 0..(Len(s) - Len(t)) : SubSeq(s, i + 1, i + Len(t)) = t

\* some gloss of the entry holds the query, letter case aside
matchesDefinition(wordData, q) ==
    \E i \in DOMAIN wordData.senses : \E j \in DOMAIN wordData.senses[i].glosses :
        Includes(toLowerCase(wordData.senses[i].glosses[j]), toLowerCase(q))

\* the sequences of a sequence, joined
RECURSIVE Concat(_)
Concat(ss) == IF ss = <<>> THEN <<>> ELSE Head(ss) \o Concat(Tail(ss))

\* the elements of a sequence in the order of their first occurrence: the
\* order in which a Set hands back what was added to it
RECURSIVE Distinct(_, _)
Distinct(s, seen) ==
    IF s = <<>> THEN <<>>
    ELSE IF Head(s) \in seen THEN Distinct(Tail(s), seen)
    ELSE <<Head(s)>> \o Distinct(Tail(s), seen \cup {Head(s)})

\* s.slice(0, n)
Take(s, n) == SubSeq(s, 1, IF Len(s) <= n THEN Len(s) ELSE n)

\* gloss.replace(/\([^)]+\)/g, ''): at an opening parenthesis the text up
\* to the next closing one goes, when there is something between the two
RECURSIVE RemoveParenthetical(_)
RemoveParenthetical(g) ==
    LET Closes(j) == g[j] = ")" /\ \A r \in 2..(j - 1) : g[r] # ")"
    IN  IF g = <<>> THEN <<>>
        ELSE IF Head(g) = "(" /\ \E j \in 3..Len(g) : Closes(j)
        THEN RemoveParenthetical(SubSeq(g, (CHOOSE j \in 3..Len(g) : Closes(j)) + 1, Len(g)))
        ELSE <<Head(g)>> \o RemoveParenthetical(Tail(g))

\* the English words of a gloss, as the index build takes them: the pieces
\* between the delimiters, in lower case, of two letters a to z or more
extractWords(gloss) ==
    LET Delimiters == {",", ";", "/", "-", " "}
        AsciiLower ==
            {"a","b","c","d","e","f","g","h","i","j","k","l","m","n","o","p","q",
             "r","s","t","u","v","w","x","y","z"}
        RECURSIVE Split(_, _)
        Split(g, piece) ==
            IF g = <<>> THEN <<piece>>
            ELSE IF Head(g) \in Delimiters THEN <<piece>> \o Split(Tail(g), <<>>)
            ELSE Split(Tail(g), Append(piece, Head(g)))
        Lowered(pieces) == [i \in DOMAIN pieces |-> normalizeForLookup(pieces[i])]
        IsWord(w) == Len(w) >= 2 /\ \A i \in DOMAIN w : w[i] \in AsciiLower
    IN  SelectSeq(Lowered(Split(RemoveParenthetical(gloss), <<>>)), IsWord)

\* The reverse index the build script writes for a word store read in the
\* given order: each English word of each gloss leads to the words whose
\* glosses hold it, a new English word going last, 20 words at most.
RECURSIVE buildReverseIndex(_, _, _)
buildReverseIndex(index, store, order) ==
    LET Add(ix, engWord, tw) ==
            IF \E i \in DOMAIN ix : ix[i].englishWord = engWord
            THEN [i \in DOMAIN ix |->
                    IF /\ ix[i].englishWord = engWord
                       /\ \A j \in DOMAIN ix[i].turkishWords : ix[i].turkishWords[j] # tw
                    THEN [ix[i] EXCEPT !.turkishWords = Append(@, tw)]
                    ELSE ix[i]]
            ELSE Append(ix, [englishWord |-> engWord, turkishWords |-> <<tw>>])
        RECURSIVE AddAll(_, _, _)
        AddAll(ix, englishWords, tw) ==
            IF englishWords = <<>> THEN ix
            ELSE AddAll(Add(ix, Head(englishWords), tw), Tail(englishWords), tw)
        EnglishWordsOf(wordData) ==
            Concat([i \in DOMAIN wordData.senses |->
                Concat([j \in DOMAIN wordData.senses[i].glosses |->
                    extractWords(wordData.senses[i].glosses[j])])])
    IN  IF order = <<>>
        THEN [i \in DOMAIN index |-> [index[i] EXCEPT !.turkishWords = Take(@, 20)]]
        ELSE buildReverseIndex(
                IF Head(order) \in DOMAIN store
                THEN AddAll(index, EnglishWordsOf(store[Head(order)]), store[Head(order)].word)
                ELSE index,
                store, Tail(order))

\* searchEnglishToTurkish(query, limit) over the loaded reverse index: the
\* Turkish words of the index entries whose English word holds the query or
\* is held by it, 2 * limit at most; of these the entries that load and
\* hold the query in a gloss, limit at most
searchEnglishToTurkish(index, store, q, limit) ==
    LET Matching(normalizedQuery) ==
            Take(Distinct(Concat([i \in DOMAIN index |->
                    IF \/ Includes(index[i].englishWord, normalizedQuery)
                       \/ Includes(normalizedQuery, index[i].englishWord)
                    THEN index[i].turkishWords ELSE <<>>]), {}), 2 * limit)
        Verified(wordArray, normalizedQuery) ==
            Concat([i \in DOMAIN wordArray |->
                IF /\ findWord(store, wordArray[i]) # <<>>
                   /\ matchesDefinition(findWord(store, wordArray[i])[1], normalizedQuery)
                THEN findWord(store, wordArray[i]) ELSE <<>>])
    IN  IF Len(q) < 2 THEN <<>>
        ELSE Take(Verified(Matching(normalizeForLookup(q)), normalizeForLookup(q)), limit)

\* mutant: no candidate is skipped
IsSkipped_Never(s, q, df) == FALSE

\* the candidate is skipped without a lookup: its dictionary form is the
\* query itself
IsSkipped(s, q, df) == IF s = "load" THEN df = toLowerCase(q) ELSE df = q

(***************************************************************************)
(* Inputs                                                                  *)
(***************************************************************************)
MaxRootLen == 2     \* generated verb roots have at most this many letters
MaxStemLen == 2     \* generated noun stems have at most this many letters
MaxWordLen == 4     \* generated surface words have at most this many letters

SeqsUpTo(S, n) == UNION {[1..k -> S] : k \in 0..n}

\* the infinitive of a root, as a dictionary writes it
InfinitiveOf(root) ==
    root \o (IF getLastVowel(root) \in VOWELS.back THEN <<"m","a","k">> ELSE <<"m","e","k">>)

RootAlphabet == {"a", "e", "t", "l"}

RegularVerbRoots ==
    {<<"g","e","l">>, <<"o","k","u">>, <<"y","a","p">>, <<"b","e","k","l","e">>,
     <<"g","o:","r">>, <<"s","e","v">>, <<"b","a","k">>, <<"k","o","s,">>,
     <<"g","u:","l">>, <<"k","i0","r">>, <<"b","u","l">>, <<"c,","a","l","i0","s,">>,
     <<"o:","d","e">>, <<"u","y","u">>, <<"g","o:","n","d","e","r">>}

GeneratedRoots == {r \in SeqsUpTo(RootAlphabet, MaxRootLen) : Len(r) >= 1}

IrregularRoots ==
    {<<"g","i","t">>, <<"e","t">>, <<"t","a","t">>, <<"g","u:","t">>, <<"d","i","t">>,
     <<"y","e">>, <<"d","e">>}

Roots == RegularVerbRoots \cup GeneratedRoots \cup IrregularRoots

\* strings that are not well-formed lowercase infinitives
OtherLemmas ==
    {<<>>, <<"e","v">>, <<"m","e","k">>, <<"k","r","m","e","k">>,
     OBJECT_CONSTRUCTOR \o <<"m","a","k">>, OBJECT_PROTO \o <<"m","a","k">>,
     <<"G","E","L","M","E","K">>, <<"G","I","T","m","e","k">>, <<"I.","c,","m","e","k">>}

Lemmas == {InfinitiveOf(r) : r \in Roots} \cup OtherLemmas

StemAlphabet == {"e", "a", "v", "n", "y"}

NounLemmas ==
    {<<"e","v">>, <<"a","r","a","b","a">>, <<"g","u:","n">>, <<"k","e","d","i">>,
     <<"k","i","t","a","p">>, <<"o","k","u","l">>, <<"s","u">>, <<"a","y">>}

NounStems == NounLemmas \cup {s \in SeqsUpTo(StemAlphabet, MaxStemLen) : Len(s) >= 2}

\* the dative of a noun stem: -e/-a after a consonant, -ye/-ya after a vowel
DativeOf(s) ==
    LET v == getLastVowel(s)
        a == IF v \in VOWELS.back THEN "a" ELSE "e"
    IN  IF s[Len(s)] \in VOWELS.all THEN s \o <<"y", a>> ELSE s \o <<a>>

CaseEndings ==
    {<<"d","e","n">>, <<"d","a","n">>, <<"t","e","n">>, <<"t","a","n">>,
     <<"d","e">>, <<"d","a">>, <<"t","e">>, <<"t","a">>,
     <<"i">>, <<"i","n">>, <<"l","e","r">>, <<"i","m">>}

WordAlphabet == {"a", "e", "i", "d", "n", "m", "y", "r"}

SurfaceWords ==
    {<<"e","v","e">>, <<"E","v","e">>, <<"o","k","u","y","o","r","u","m">>,
     <<"g","e","l","m","e","k">>, <<"o","k","u","m","a","k">>,
     <<"g","i","d","i","y","o","r","u","m">>, <<"I.","e">>,
     <<"e","d","i","y","o","r">>, <<"y","i","y","o","r","u","m">>,
     <<"d","i","y","o","r">>, <<"g","i","d","e","r">>, <<"e","d","e","r">>,
     <<"t","a","d","a","r">>, <<"y","e","r">>, <<"d","e","r">>,
     <<"g","o:","n","d","e","r","d","i">>, <<"g","e","l","d","i">>,
     <<"y","a","p","t","i0">>}

Words ==
    SeqsUpTo(WordAlphabet, MaxWordLen)
        \cup SurfaceWords
        \cup NounStems
        \cup {DativeOf(s) : s \in NounStems}
        \cup {s \o e : s \in NounStems, e \in CaseEndings}

Polarities == {"positive", "negative", "question", "negativeQuestion"}

MaxHarmonyStemLen == 2  \* generated stems of applySuffix have at most this many letters
MaxTemplateLen == 3     \* suffix templates have at most this many characters

HarmonyAlphabet == {"a", "u:", "k", "z"}

\* one stem for each of the eight vowels, stems without a vowel, and stems
\* with capital letters
ListedStems ==
    {<<"e","v">>, <<"k","i","t","a","p">>, <<"o","k","u","l">>, <<"g","u:","l">>,
     <<"k","i0","z">>, <<"g","o:","z">>, <<"y","o","l">>, <<"d","i","s,">>,
     <<"k","r">>, <<"s","t">>, <<"G","E","L">>, <<"K","I","Z">>, <<"I.">>}

HarmonyStems == SeqsUpTo(HarmonyAlphabet, MaxHarmonyStemLen) \cup ListedStems

TemplateAlphabet == {"A", "I", "D", "l"}

Templates == SeqsUpTo(TemplateAlphabet, MaxTemplateLen)

NoTable == [infinitive |-> <<>>, root |-> <<>>, vowelType |-> "", tenses |-> <<>>]

(***************************************************************************)
(* Inputs of the lookup orchestration: the tokens looked up and the        *)
(* entries the word store may hold                                         *)
(***************************************************************************)
Sense(tags, glosses) == [tags |-> tags, glosses |-> glosses]
Entry(w, senses) == [word |-> w, senses |-> senses]

EV == <<"e","v">>
EVLER == <<"e","v","l","e","r">>
EVE == <<"e","v","e">>
GELMEK == <<"g","e","l","m","e","k">>
GELDI == <<"g","e","l","d","i">>

GlossHouse == <<"h","o","u","s","e">>
GlossPluralOfEv == <<"p","l","u","r","a","l"," ","o","f"," ">> \o EV
GlossDativeOfEv == <<"d","a","t","i","v","e"," ","O","f"," "," ">> \o EV
GlossPastOfGelmek == <<"p","a","s","t"," ","o","f"," ">> \o GELMEK
GlossInflected == <<"i","n","f","l","e","c","t","e","d"," ","f","o","r","m">>
GlossRoof == <<"r","o","o","f"," ">> \o EV

\* for each key, the entries the store may hold under it
EntryChoices ==
    [k \in {EV, EVLER, EVE, GELMEK, GELDI} |->
        CASE k = EV -> {Entry(EV, <<Sense({}, <<GlossHouse>>)>>)}
          [] k = EVLER ->
                {Entry(EVLER, <<Sense({"form-of", "plural"}, <<GlossPluralOfEv>>)>>),
                 Entry(EVLER, <<Sense({"form-of"}, <<>>)>>),
                 Entry(EVLER, <<Sense({"form-of"}, <<GlossInflected>>)>>)}
          [] k = EVE ->
                {Entry(EVE, <<Sense({}, <<GlossRoof>>),
                              Sense({"form-of"}, <<GlossDativeOfEv>>)>>),
                 Entry(EVE, <<Sense({"form-of", "dative"}, <<GlossDativeOfEv>>)>>)}
          [] k = GELMEK -> {Entry(GELMEK, <<Sense({}, <<<<"c","o","m","e">>>>)>>)}
          [] k = GELDI -> {Entry(GELDI, <<Sense({"form-of"}, <<GlossPastOfGelmek>>)>>)}]

\* every content of the word store
Stores ==
    UNION {{st \in [K -> UNION {EntryChoices[k] : k \in K}] :
                \A k \in K : st[k] \in EntryChoices[k]} : K \in SUBSET DOMAIN EntryChoices}

\* the orders in which the index build may read the entries
WordFileOrders == {<<EV, EVE, EVLER, GELDI, GELMEK>>, <<GELMEK, GELDI, EVLER, EVE, EV>>}

\* the reverse index the server may load next to a word store: none (the
\* request failed, an empty map is kept) or the one built from the store
ReverseIndexes(st) == {<<>>} \cup {buildReverseIndex(<<>>, st, o) : o \in WordFileOrders}

\* the words of a sentence as typed; tokenize lowercases them
TokenOriginals ==
    {EV, EVLER, <<"E","v","l","e","r">>, EVE, GELMEK, GELDI,
     EVLER \o <<"d","e">>, <<"e","v","d","e","n">>}

\* the word of the page address, which is not normalised
LoadQueries == TokenOriginals \cup {<<"E","V","E">>, <<" ">> \o EVE \o <<" ">>}

NoToken ==
    [original |-> <<>>, data |-> <<>>, baseWordData |-> <<>>, deinflectionInfo |-> <<>>,
     loading |-> FALSE, error |-> FALSE]

NoPage ==
    [words |-> <<>>, deinflectionResults |-> <<>>, englishResults |-> <<>>,
     isEnglishSearch |-> FALSE, tdkEntry |-> <<>>, notFound |-> FALSE]

(***************************************************************************)
(* State machine: every step is one call of a public operation; the engine *)
(* keeps no state between calls, so a behaviour is one call, or one        *)
(* conjugation followed by the deinflection of what it returned            *)
(***************************************************************************)
Init ==
    /\ pc = "start"
    /\ infinitive = <<>>
    /\ compound = FALSE
    /\ tense = NULL
    /\ person = NULL
    /\ polarity = NULL
    /\ form = <<>>
    /\ table = NoTable
    /\ word = <<>>
    /\ results = <<>>
    /\ output = <<>>
    /\ harmonyStem = <<>>
    /\ harmonyTemplate = <<>>
    /\ suffixed = <<>>
    /\ site = NULL
    /\ query = <<>>
    /\ wordStore = <<>>
    /\ reverseIndex = <<>>
    /\ lookups = <<>>
    /\ deinflectCalled = FALSE
    /\ candidates = <<>>
    /\ idx = 0
    /\ token = NoToken
    /\ page = NoPage
    /\ component = NULL
    /\ sentenceProp = <<>>
    /\ currentSentence = <<>>
    /\ tokens = <<>>
    /\ selectedIndex = <<>>
    /\ navigation = <<>>
    /\ running = {}
    /\ started = 0
    /\ timers = <<>>
    /\ changes = 0

\* getConjugation(infinitive, tense, person, negative)
GetConjugation ==
    /\ pc = "start"
    /\ \E inf \in Lemmas, k \in 1..Len(ALL_TENSES), i \in 1..Len(Persons), negative \in BOOLEAN :
        /\ pc' = "conjugated"
        /\ infinitive' = inf
        /\ compound' = FALSE
        /\ tense' = ALL_TENSES[k]
        /\ person' = Persons[i]
        /\ polarity' = IF negative THEN "negative" ELSE "positive"
        /\ form' = getConjugation(inf, ALL_TENSES[k], Persons[i], negative)
        /\ table' = NoTable
        /\ word' = <<>>
        /\ results' = <<>>
        /\ output' = <<>>
        /\ UNCHANGED <<harmonyVars, lookupVars, analysisVars>>

\* conjugateVerb(infinitive, includeCompound)
ConjugateVerb ==
    /\ pc = "start"
    /\ \E inf \in Lemmas, includeCompound \in BOOLEAN :
        /\ pc' = "table"
        /\ infinitive' = inf
        /\ compound' = includeCompound
        /\ table' = conjugateVerb(inf, includeCompound)
        /\ tense' = NULL
        /\ person' = NULL
        /\ polarity' = NULL
        /\ form' = <<>>
        /\ word' = <<>>
        /\ results' = <<>>
        /\ output' = <<>>
        /\ UNCHANGED <<harmonyVars, lookupVars, analysisVars>>

\* deinflect(form) on the form getConjugation returned
DeinflectForm ==
    /\ pc = "conjugated"
    /\ pc' = "roundtrip"
    /\ word' = form
    /\ results' = deinflectResults(form)
    /\ output' = RemoveDuplicates(results', {})
    /\ UNCHANGED <<infinitive, compound, tense, person, polarity, form, table>>
    /\ UNCHANGED <<harmonyVars, lookupVars, analysisVars>>

\* deinflect(cell) on one cell of the table conjugateVerb returned
DeinflectCell ==
    /\ pc = "table"
    /\ \E k \in 1..Len(table.tenses), i \in 1..Len(Persons), pol \in Polarities :
        LET cell == table.tenses[k].forms[Persons[i]][pol]
        IN  /\ pc' = "roundtrip"
            /\ tense' = table.tenses[k].tense
            /\ person' = Persons[i]
            /\ polarity' = pol
            /\ form' = cell
            /\ word' = cell
            /\ results' = deinflectResults(cell)
            /\ output' = RemoveDuplicates(results', {})
    /\ table' = NoTable
    /\ UNCHANGED <<infinitive, compound>>
    /\ UNCHANGED <<harmonyVars, lookupVars, analysisVars>>

\* deinflect(word) on an arbitrary surface word
Deinflect ==
    /\ pc = "start"
    /\ \E w \in Words :
        /\ pc' = "deinflected"
        /\ word' = w
        /\ results' = deinflectResults(w)
        /\ output' = RemoveDuplicates(results', {})
        /\ infinitive' = <<>>
        /\ compound' = FALSE
        /\ tense' = NULL
        /\ person' = NULL
        /\ polarity' = NULL
        /\ form' = <<>>
        /\ table' = NoTable
        /\ UNCHANGED <<harmonyVars, lookupVars, analysisVars>>

\* applySuffix(stem, suffixTemplate)
ApplySuffix ==
    /\ pc = "start"
    /\ \E s \in HarmonyStems, t \in Templates :
        /\ pc' = "suffixed"
        /\ harmonyStem' = s
        /\ harmonyTemplate' = t
        /\ suffixed' = applySuffix(s, t)
        /\ UNCHANGED <<engineVars, lookupVars, analysisVars>>

\* the index of the first candidate from i on that is not skipped, or one
\* past the end
NextCandidate(s, q, cands, i) ==
    IF \E j \in i..Len(cands) : ~IsSkipped(s, q, cands[j].dictionaryForm)
    THEN CHOOSE j \in i..Len(cands) :
            /\ ~IsSkipped(s, q, cands[j].dictionaryForm)
            /\ \A r \in i..(j - 1) : IsSkipped(s, q, cands[r].dictionaryForm)
    ELSE Len(cands) + 1

\* The for loop over the candidates from index j, up to its next await:
\* the lookup of candidate j is issued, or the loop is over without a hit.
\* tk and pg are the token and the page as the caller leaves them.
CandidateLoop(cands, j, tk, pg) ==
    IF j <= Len(cands)
    THEN /\ lookups' = Append(lookups, cands[j].dictionaryForm)
         /\ idx' = j
         /\ pc' = "awaitCandidate"
         /\ token' = tk
         /\ page' = pg
    ELSE /\ lookups' = lookups
         /\ idx' = j
         /\ token' = IF site = "load" THEN tk
                     ELSE [tk EXCEPT !.error = TRUE, !.loading = FALSE]
         /\ page' = pg
         /\ pc' = IF site = "load" THEN "awaitEnglish" ELSE "done"

\* fetchWordData(index) up to its first await: the direct lookup is issued
FetchWordData ==
    /\ pc = "start"
    /\ \E s \in {"analyzer", "saved"}, original \in TokenOriginals, st \in Stores :
        /\ pc' = "awaitExact"
        /\ site' = s
        /\ query' = toLowerCase(original)
        /\ wordStore' = st
        /\ reverseIndex' = reverseIndex
        /\ token' = [NoToken EXCEPT !.original = original, !.loading = TRUE]
        /\ lookups' = <<toLowerCase(original)>>
        /\ UNCHANGED <<deinflectCalled, candidates, idx, page>>
        /\ UNCHANGED <<engineVars, harmonyVars, analysisVars>>

\* load({ params }) up to its first await: the exact lookup is issued
Load ==
    /\ pc = "start"
    /\ \E q \in LoadQueries, st \in Stores :
      \E index \in ReverseIndexes(st) :
        /\ pc' = "awaitExact"
        /\ site' = "load"
        /\ query' = q
        /\ wordStore' = st
        /\ reverseIndex' = index
        /\ lookups' = <<q>>
        /\ UNCHANGED <<deinflectCalled, candidates, idx, token, page>>
        /\ UNCHANGED <<engineVars, harmonyVars, analysisVars>>

\* the direct lookup hit
ExactHit ==
    /\ pc = "awaitExact"
    /\ Lookup(site, wordStore, query) # <<>>
    /\ IF site = "load"
       THEN /\ page' = [page EXCEPT !.words = Lookup(site, wordStore, query)]
            /\ pc' = "awaitTdk"
            /\ UNCHANGED <<token, lookups>>
       ELSE IF site = "saved" /\ BaseWordOf(Lookup(site, wordStore, query)[1]) # <<>>
       THEN /\ token' = [token EXCEPT !.data = Lookup(site, wordStore, query)]
            /\ lookups' = Append(lookups, BaseWordOf(Lookup(site, wordStore, query)[1])[1])
            /\ pc' = "awaitBase"
            /\ UNCHANGED page
       ELSE /\ token' = [token EXCEPT !.data = Lookup(site, wordStore, query),
                                      !.loading = FALSE]
            /\ pc' = "done"
            /\ UNCHANGED <<page, lookups>>
    /\ UNCHANGED <<site, query, wordStore, reverseIndex, deinflectCalled, candidates, idx>>
    /\ UNCHANGED <<engineVars, harmonyVars, analysisVars>>

\* the direct lookup missed: deinflect is called and the loop starts
ExactMiss ==
    /\ pc = "awaitExact"
    /\ Lookup(site, wordStore, query) = <<>>
    /\ deinflectCalled' = TRUE
    /\ candidates' = deinflect(query)
    /\ CandidateLoop(candidates', NextCandidate(site, query, candidates', 1), token,
                     IF site = "load"
                     THEN [page EXCEPT !.deinflectionResults = candidates'] ELSE page)
    /\ UNCHANGED <<site, query, wordStore, reverseIndex>>
    /\ UNCHANGED <<engineVars, harmonyVars, analysisVars>>

\* the lookup of candidate idx hit: its entry is the result
CandidateHit ==
    /\ pc = "awaitCandidate"
    /\ Lookup(site, wordStore, candidates[idx].dictionaryForm) # <<>>
    /\ IF site = "load"
       THEN /\ page' = [page EXCEPT
                            !.words = Lookup(site, wordStore, candidates[idx].dictionaryForm)]
            /\ pc' = "awaitTdk"
            /\ UNCHANGED token
       ELSE /\ token' = [token EXCEPT
                !.data = Lookup(site, wordStore, candidates[idx].dictionaryForm),
                !.baseWordData = IF site = "saved"
                    THEN Lookup(site, wordStore, candidates[idx].dictionaryForm) ELSE @,
                !.deinflectionInfo = IF site = "saved"
                    THEN <<[candidates[idx] EXCEPT !.originalWord = token.original]>>
                    ELSE <<candidates[idx]>>,
                !.loading = FALSE]
            /\ pc' = "done"
            /\ UNCHANGED page
    /\ UNCHANGED <<site, query, wordStore, reverseIndex, lookups, deinflectCalled, candidates, idx>>
    /\ UNCHANGED <<engineVars, harmonyVars, analysisVars>>

\* the lookup of candidate idx missed: the loop goes on
CandidateMiss ==
    /\ pc = "awaitCandidate"
    /\ Lookup(site, wordStore, candidates[idx].dictionaryForm) = <<>>
    /\ CandidateLoop(candidates, NextCandidate(site, query, candidates, idx + 1), token, page)
    /\ UNCHANGED <<site, query, wordStore, reverseIndex, deinflectCalled, candidates>>
    /\ UNCHANGED <<engineVars, harmonyVars, analysisVars>>

\* the lookup of the base word of a form-of entry returned
BaseResponse ==
    /\ pc = "awaitBase"
    /\ pc' = "done"
    /\ token' = [token EXCEPT
            !.baseWordData = tryFetchWord(wordStore, lookups[Len(lookups)]),
            !.loading = FALSE]
    /\ UNCHANGED <<site, query, wordStore, reverseIndex, lookups, deinflectCalled, candidates, idx, page>>
    /\ UNCHANGED <<engineVars, harmonyVars, analysisVars>>

\* searchEnglishToTurkish(query, 10) returned: its results go to the page,
\* which is a not-found page when there are none
EnglishResponse ==
    /\ pc = "awaitEnglish"
    /\ pc' = "done"
    /\ LET SetResults(res) ==
            [page EXCEPT !.englishResults = res,
                         !.isEnglishSearch = (res # <<>>),
                         !.notFound = (res = <<>>)]
       IN  page' = SetResults(searchEnglishToTurkish(reverseIndex, wordStore, query, 10))
    /\ UNCHANGED <<site, query, wordStore, reverseIndex, lookups, deinflectCalled, candidates, idx, token>>
    /\ UNCHANGED <<engineVars, harmonyVars, analysisVars>>

\* fetchTdkDefinition(words[0].word) returned, with or without an entry
TdkResponse ==
    \E entry \in {<<>>, <<"tdk">>} :
        /\ pc = "awaitTdk"
        /\ pc' = "done"
        /\ page' = [page EXCEPT !.tdkEntry = entry, !.notFound = FALSE]
        /\ UNCHANGED <<site, query, wordStore, reverseIndex, lookups, deinflectCalled, candidates, idx, token>>
        /\ UNCHANGED <<engineVars, harmonyVars, analysisVars>>

\* the lookup orchestrations
(***************************************************************************)
(* Sentence analysis: the token list of the sentence analyzer component    *)
(* and of the analysis page, the prefetch started when the sentence        *)
(* changes, clicks on tokens, and the fetchWordData runs in flight.  The   *)
(* steps of a run are the stretches of code between two awaits.  Token     *)
(* indices count from 1.                                                   *)
(***************************************************************************)
\* characters that are not letters (\p{L})
NonLetters == {",", ".", "!", "?", "-", " ", ".^"}
IsLetter(c) == c \notin NonLetters

TokenInfo(original, w, isPunctuation) ==
    [original |-> original, word |-> w, isPunctuation |-> isPunctuation,
     data |-> <<>>, baseWordData |-> <<>>, deinflectionInfo |-> <<>>,
     loading |-> FALSE, error |-> FALSE]

\* the number of characters [^\p{L}]* takes at the start of the part
LeadingLength(part) ==
    CHOOSE n \in 0..Len(part) :
        /\ \A j \in 1..n : ~IsLetter(part[j])
        /\ n < Len(part) => IsLetter(part[n + 1])

\* the index where \p{L}+ ends when it starts after index n
LettersEnd(part, n) ==
    CHOOSE m \in n..Len(part) :
        /\ \A j \in (n + 1)..m : IsLetter(part[j])
        /\ m < Len(part) => ~IsLetter(part[m + 1])

\* the tokens pushed for a part whose leading punctuation ends at n and
\* whose letters end at m
PartTokens(part, n, m) ==
    IF m > n /\ \A j \in (m + 1)..Len(part) : ~IsLetter(part[j])
    THEN (IF n > 0 THEN <<TokenInfo(SubSeq(part, 1, n), <<>>, TRUE)>> ELSE <<>>)
            \o <<TokenInfo(SubSeq(part, n + 1, m),
                           toLowerCase(SubSeq(part, n + 1, m)), FALSE)>>
            \o (IF m < Len(part)
                THEN <<TokenInfo(SubSeq(part, m + 1, Len(part)), <<>>, TRUE)>>
                ELSE <<>>)
    ELSE <<TokenInfo(part, <<>>, TRUE)>>

PartSplit(part, n) == PartTokens(part, n, LettersEnd(part, n))

\* the body of the loop of tokenize for one part; empty parts are skipped
TokensOfPart(part) ==
    IF part = <<>> THEN <<>> ELSE PartSplit(part, LeadingLength(part))

\* text.split(/(\s+)/) and the loop over the parts: part collects the
\* characters since the last white space
RECURSIVE TokenizeFrom(_, _)
TokenizeFrom(text, part) ==
    IF text = <<>> THEN TokensOfPart(part)
    ELSE IF IsSpace(Head(text))
    THEN TokensOfPart(part) \o TokenizeFrom(Tail(text), <<>>)
    ELSE TokenizeFrom(Tail(text), Append(part, Head(text)))

tokenize(text) == TokenizeFrom(text, <<>>)

\* the guard of fetchWordData passes for index i of the list; an index
\* past the end reads undefined and the call rejects before any write
CanFetch(list, i) ==
    /\ i \in DOMAIN list
    /\ ~list[i].isPunctuation
    /\ list[i].data = <<>>
    /\ ~list[i].loading

\* the runs started for the indices in P, each awaiting its direct lookup;
\* word and original are those of the token object the run keeps
RunsFor(list, P, n) ==
    {[id |-> n + Cardinality({j \in P : j <= i}), index |-> i,
      word |-> list[i].word, original |-> list[i].original,
      stage |-> "exact", cands |-> <<>>, at |-> 0, base |-> <<>>] : i \in P}

\* tokens[index].loading = true for the indices in P
MarkLoading(list, P) ==
    [i \in DOMAIN list |-> IF i \in P THEN [list[i] EXCEPT !.loading = TRUE] ELSE list[i]]

\* a write to tokens[index]: it lands on the token that is at that index
\* now; past the end it throws, and so do the catch and finally blocks
SetData(list, i, wordData, info, base) ==
    IF i \in DOMAIN list
    THEN [list EXCEPT ![i].data = wordData, ![i].deinflectionInfo = info,
                      ![i].baseWordData = base, ![i].loading = FALSE]
    ELSE list

SetBase(list, i, base) ==
    IF i \in DOMAIN list
    THEN [list EXCEPT ![i].baseWordData = base, ![i].loading = FALSE]
    ELSE list

SetError(list, i) ==
    IF i \in DOMAIN list
    THEN [list EXCEPT ![i].error = TRUE, ![i].loading = FALSE]
    ELSE list

(***************************************************************************)
(* Inputs of the sentence analysis                                         *)
(***************************************************************************)
MaxRuns == 3        \* fetchWordData runs started in one behaviour
MaxChanges == 1     \* changes of the sentence after the first one

SentenceEvdeGeldi == <<"E","v","d","e",","," ","g","e","l","d","i">>
SentenceEvler == EVLER
SentenceGel == <<"-"," "," ">> \o GELDI \o <<"!">>

SentenceGeldiEvde == GELDI \o <<" ","E","v","d","e">>

Sentences == {<<>>, SentenceEvdeGeldi, SentenceEvler, SentenceGel}

\* the values of i in the address the analysis page is created at
UrlIndices == {0, 2}

\* what is typed into the search bar of the analysis page
SearchQueries ==
    {<<" ">>, SentenceEvler, <<" ">> \o SentenceEvdeGeldi \o <<" ">>, SentenceGeldiEvde}

\* the entries the word store serves; a lookup may also fail on the way
AnalysisStore ==
    [k \in {EV, EVLER, GELMEK} |->
        CASE k = EV -> Entry(EV, <<Sense({}, <<GlossHouse>>)>>)
          [] k = EVLER -> Entry(EVLER, <<Sense({"form-of", "plural"}, <<GlossPluralOfEv>>)>>)
          [] k = GELMEK -> Entry(GELMEK, <<Sense({}, <<<<"c","o","m","e">>>>)>>)]

(***************************************************************************)
(* Actions of the sentence analysis                                        *)
(***************************************************************************)
\* fetchWordData(i) up to its first await for every i in P
StartRuns(list, P) ==
    /\ started + Cardinality(P) <= MaxRuns
    /\ tokens' = MarkLoading(list, P)
    /\ running' = running \cup RunsFor(list, P, started)
    /\ started' = started + Cardinality(P)

\* the $effect of the sentence analyzer: the tokens are replaced and the
\* data of every word is prefetched
AnalyzerEffect(text, list) ==
    /\ component' = "analyzer"
    /\ sentenceProp' = text
    /\ selectedIndex' = <<>>
    /\ StartRuns(list, {i \in DOMAIN list : ~list[i].isPunctuation})
    /\ UNCHANGED <<currentSentence, navigation, timers>>

\* The analysis page at the address /analyze?s=text&i=i: the sentence and
\* the selection are derived from the address (the selection is i, counted
\* from 1 here), and the $effect replaces the tokens for a new non-empty
\* sentence and leaves the prefetch to a timer.
SavedEffect(text, i, list) ==
    /\ component' = "saved"
    /\ sentenceProp' = text
    /\ selectedIndex' = <<i + 1>>
    /\ IF text # <<>> /\ text # currentSentence
       THEN /\ currentSentence' = text
            /\ tokens' = list
            /\ timers' = Append(timers, list)
       ELSE UNCHANGED <<currentSentence, tokens, timers>>
    /\ UNCHANGED <<running, started>>

\* the component is created with its first sentence
AnalyzerMount ==
    /\ pc = "start"
    /\ \E text \in Sentences :
        /\ pc' = "analyzing"
        /\ AnalyzerEffect(text, tokenize(text))
        /\ UNCHANGED changes
        /\ UNCHANGED <<engineVars, harmonyVars, lookupVars>>

\* the analysis page is created at an address
SavedMount ==
    /\ pc = "start"
    /\ \E text \in Sentences, i \in UrlIndices :
        /\ pc' = "analyzing"
        /\ SavedEffect(text, i, tokenize(text))
        /\ UNCHANGED <<navigation, changes>>
        /\ UNCHANGED <<engineVars, harmonyVars, lookupVars>>

\* the sentence changes while the component is shown
AnalyzerSentenceChange ==
    /\ pc = "analyzing"
    /\ \E text \in Sentences :
        /\ component = "analyzer"
        /\ text # sentenceProp
        /\ changes < MaxChanges
        /\ changes' = changes + 1
        /\ AnalyzerEffect(text, tokenize(text))
        /\ UNCHANGED pc
        /\ UNCHANGED <<engineVars, harmonyVars, lookupVars>>

\* handleSearch(query) on the analysis page: goto starts a navigation,
\* which replaces one that has not completed.  It leads to the analysis of
\* the trimmed query when two words or more of it hold a letter, else to
\* the page of the word.
HandleSearch ==
    LET LetterWords(q) ==
            Cardinality({i \in DOMAIN q :
                /\ ~IsSpace(q[i])
                /\ i = 1 \/ IsSpace(q[i - 1])
                /\ \E j \in i..Len(q) : IsLetter(q[j]) /\ \A r \in i..j : ~IsSpace(q[r])})
        Target(trimmed) ==
            [leave |-> LetterWords(trimmed) < 2, s |-> trimmed, i |-> 0]
    IN  /\ pc = "analyzing"
        /\ component = "saved"
        /\ changes < MaxChanges
        /\ \E q \in SearchQueries :
            /\ trimEnd(trimStart(q)) # <<>>
            /\ navigation' = <<Target(trimEnd(trimStart(q)))>>
        /\ changes' = changes + 1
        /\ UNCHANGED <<pc, component, sentenceProp, currentSentence, tokens, selectedIndex,
                       running, started, timers>>
        /\ UNCHANGED <<engineVars, harmonyVars, lookupVars>>

\* the navigation started by goto completes: the page is left, or its
\* address changes and with it the selection and the sentence.  Leaving
\* cancels neither the timers nor the runs in flight, which go on writing
\* to the tokens of the page that was left.
NavigationComplete ==
    /\ pc = "analyzing"
    /\ navigation # <<>>
    /\ navigation' = <<>>
    /\ IF navigation[1].leave
       THEN /\ pc' = "left"
            /\ UNCHANGED <<component, sentenceProp, currentSentence, tokens, selectedIndex,
                           running, started, timers>>
       ELSE /\ SavedEffect(navigation[1].s, navigation[1].i, tokenize(navigation[1].s))
            /\ UNCHANGED pc
    /\ UNCHANGED changes
    /\ UNCHANGED <<engineVars, harmonyVars, lookupVars>>

\* the timer of the analysis page fires: fetchWordData(i) for every word
\* of the list the effect built, against the tokens as they are now
PrefetchTimeout ==
    /\ pc \in {"analyzing", "left"}
    /\ timers # <<>>
    /\ timers' = Tail(timers)
    /\ StartRuns(tokens, {i \in DOMAIN Head(timers) :
                            ~Head(timers)[i].isPunctuation /\ CanFetch(tokens, i)})
    /\ UNCHANGED <<pc, component, sentenceProp, currentSentence, selectedIndex,
                   navigation, changes>>
    /\ UNCHANGED <<engineVars, harmonyVars, lookupVars>>

\* handleTokenClick / handleWordClick on a word token.  The analyzer moves
\* the selection, or drops it when the token is clicked again.  The
\* analysis page starts a navigation to its address with i set to the
\* index; its selection follows when the navigation completes.  Both fetch
\* the data unless it is present or loading.
TokenClick ==
    /\ pc = "analyzing"
    /\ \E i \in DOMAIN tokens :
        /\ ~tokens[i].isPunctuation
        /\ IF component = "analyzer"
           THEN IF selectedIndex = <<i>>
                THEN /\ selectedIndex' = <<>>
                     /\ UNCHANGED <<tokens, running, started, navigation>>
                ELSE /\ selectedIndex' = <<i>>
                     /\ StartRuns(tokens, IF CanFetch(tokens, i) THEN {i} ELSE {})
                     /\ UNCHANGED navigation
           ELSE /\ navigation' = <<[leave |-> FALSE, s |-> sentenceProp, i |-> i - 1]>>
                /\ StartRuns(tokens, IF CanFetch(tokens, i) THEN {i} ELSE {})
                /\ UNCHANGED selectedIndex
        /\ UNCHANGED <<pc, component, sentenceProp, currentSentence, timers, changes>>
        /\ UNCHANGED <<engineVars, harmonyVars, lookupVars>>

\* the run goes on to the lookup of candidate j, or ends without a match
ContinueRun(r, cands, j) ==
    IF j <= Len(cands)
    THEN /\ running' = (running \ {r})
                          \cup {[r EXCEPT !.stage = "cand", !.cands = cands, !.at = j]}
         /\ UNCHANGED tokens
    ELSE /\ running' = running \ {r}
         /\ tokens' = SetError(tokens, r.index)

\* the direct lookup of a run returns an entry
ExactFound(r, wordData) ==
    IF component = "saved" /\ r.index \in DOMAIN tokens /\ BaseWordOf(wordData[1]) # <<>>
    THEN /\ tokens' = [tokens EXCEPT ![r.index].data = wordData,
                                     ![r.index].deinflectionInfo = <<>>]
         /\ running' = (running \ {r})
                          \cup {[r EXCEPT !.stage = "base", !.base = BaseWordOf(wordData[1])]}
    ELSE /\ tokens' = SetData(tokens, r.index, wordData, <<>>,
                              IF r.index \in DOMAIN tokens
                              THEN tokens[r.index].baseWordData ELSE <<>>)
         /\ running' = running \ {r}

RunExactHit ==
    /\ pc \in {"analyzing", "left"}
    /\ \E r \in running :
        /\ r.stage = "exact"
        /\ tryFetchWord(AnalysisStore, r.word) # <<>>
        /\ ExactFound(r, tryFetchWord(AnalysisStore, r.word))
        /\ UNCHANGED <<pc, component, sentenceProp, currentSentence, selectedIndex,
                       navigation, started, timers, changes>>
        /\ UNCHANGED <<engineVars, harmonyVars, lookupVars>>

\* the direct lookup returns nothing: deinflect(token.word) and the loop
RunExactMiss ==
    /\ pc \in {"analyzing", "left"}
    /\ \E r \in running :
        /\ r.stage = "exact"
        /\ ContinueRun(r, deinflect(r.word),
                       NextCandidate(component, r.word, deinflect(r.word), 1))
        /\ UNCHANGED <<pc, component, sentenceProp, currentSentence, selectedIndex,
                       navigation, started, timers, changes>>
        /\ UNCHANGED <<engineVars, harmonyVars, lookupVars>>

\* the entry found for a candidate is stored with the candidate
CandidateFound(r, wordData, result) ==
    /\ running' = running \ {r}
    /\ tokens' = IF component = "saved"
                 THEN SetData(tokens, r.index, wordData,
                              <<[result EXCEPT !.originalWord = r.original]>>, wordData)
                 ELSE SetData(tokens, r.index, wordData, <<result>>, <<>>)

RunCandidateHit ==
    /\ pc \in {"analyzing", "left"}
    /\ \E r \in running :
        /\ r.stage = "cand"
        /\ tryFetchWord(AnalysisStore, r.cands[r.at].dictionaryForm) # <<>>
        /\ CandidateFound(r, tryFetchWord(AnalysisStore, r.cands[r.at].dictionaryForm),
                          r.cands[r.at])
        /\ UNCHANGED <<pc, component, sentenceProp, currentSentence, selectedIndex,
                       navigation, started, timers, changes>>
        /\ UNCHANGED <<engineVars, harmonyVars, lookupVars>>

RunCandidateMiss ==
    /\ pc \in {"analyzing", "left"}
    /\ \E r \in running :
        /\ r.stage = "cand"
        /\ ContinueRun(r, r.cands, NextCandidate(component, r.word, r.cands, r.at + 1))
        /\ UNCHANGED <<pc, component, sentenceProp, currentSentence, selectedIndex,
                       navigation, started, timers, changes>>
        /\ UNCHANGED <<engineVars, harmonyVars, lookupVars>>

\* the lookup of the base word of a form-of entry returns, with or without
\* an entry
RunBaseResponse ==
    /\ pc \in {"analyzing", "left"}
    /\ \E r \in running, found \in BOOLEAN :
        /\ r.stage = "base"
        /\ found => tryFetchWord(AnalysisStore, r.base[1]) # <<>>
        /\ running' = running \ {r}
        /\ tokens' = SetBase(tokens, r.index,
                             IF found THEN tryFetchWord(AnalysisStore, r.base[1])
                             ELSE IF r.index \in DOMAIN tokens
                             THEN tokens[r.index].baseWordData ELSE <<>>)
        /\ UNCHANGED <<pc, component, sentenceProp, currentSentence, selectedIndex,
                       navigation, started, timers, changes>>
        /\ UNCHANGED <<engineVars, harmonyVars, lookupVars>>

\* one sentence: the runs of its tokens
NextTokens ==
    \/ AnalyzerMount
    \/ SavedMount
    \/ PrefetchTimeout
    \/ TokenClick
    \/ RunExactHit
    \/ RunExactMiss
    \/ RunCandidateHit
    \/ RunCandidateMiss
    \/ RunBaseResponse
    \/ NavigationComplete

\* the runs interleaved with changes of the sentence
NextAnalysis ==
    \/ NextTokens
    \/ AnalyzerSentenceChange
    \/ HandleSearch

NextLookup ==
    \/ FetchWordData
    \/ Load
    \/ ExactHit
    \/ ExactMiss
    \/ CandidateHit
    \/ CandidateMiss
    \/ BaseResponse
    \/ EnglishResponse
    \/ TdkResponse

Next ==
    \/ GetConjugation
    \/ ConjugateVerb
    \/ DeinflectForm
    \/ DeinflectCell
    \/ Deinflect
    \/ ApplySuffix
    \/ NextLookup
    \/ NextAnalysis

Spec == Init /\ [][Next]_vars

\* deinflect alone, on arbitrary surface words
NextDeinflect == Deinflect
SpecDeinflect == Init /\ [][NextDeinflect]_vars

\* the conjugation engine alone
NextConjugate == GetConjugation \/ ConjugateVerb
SpecConjugate == Init /\ [][NextConjugate]_vars

\* the vowel harmony module alone
NextHarmony == ApplySuffix
SpecHarmony == Init /\ [][NextHarmony]_vars

\* the lookup orchestrations alone
SpecLookup == Init /\ [][NextLookup]_vars

\* the token list of one sentence
SpecTokens == Init /\ [][NextTokens]_vars

\* the token list under changes of the sentence
SpecAnalysis == Init /\ [][NextAnalysis]_vars

(***************************************************************************)
(* Properties                                                              *)
(***************************************************************************)
Deinflected == pc \in {"deinflected", "roundtrip"}

\* the output of deinflect holds an analysis with this dictionary form
HasCandidate(df) == \E i \in DOMAIN output : output[i].dictionaryForm = df

RegularLemmas == {InfinitiveOf(r) : r \in RegularVerbRoots}

\* C1: round trip.  For every regular verb lemma and every tense, person
\* and polarity, the candidates deinflect returns for the conjugated form
\* include the lemma.
C1_RoundTrip ==
    (pc = "roundtrip" /\ infinitive \in RegularLemmas) => HasCandidate(infinitive)

\* No verb pattern matches the word and no noun-case or possessive pattern
\* leaves a root of two letters or more.
NoAnalysis(w) ==
    LET lower == toLowerCase(w)
    IN  /\ \A k \in DOMAIN VERB_TENSE_PATTERNS :
              \A alt \in VERB_TENSE_PATTERNS[k].alts :
                  ~AltMatchesAt(lower, alt, Len(lower) - Len(alt))
        /\ \A k \in DOMAIN NOUN_CASE_PATTERNS :
              \A alt \in NOUN_CASE_PATTERNS[k].alts :
                  AltMatchesAt(lower, alt, Len(lower) - Len(alt))
                      => \E a \in NOUN_CASE_PATTERNS[k].alts :
                            /\ AltMatchesAt(lower, a, Len(lower) - Len(a))
                            /\ Len(lower) - Len(a) < 2
        /\ \A k \in DOMAIN POSSESSIVE_PATTERNS :
              \A alt \in POSSESSIVE_PATTERNS[k].alts :
                  AltMatchesAt(lower, alt, Len(lower) - Len(alt))
                      => \E a \in POSSESSIVE_PATTERNS[k].alts :
                            /\ AltMatchesAt(lower, a, Len(lower) - Len(a))
                            /\ Len(lower) - Len(a) < 2

\* C2: deinflect never returns an empty sequence, and when no pattern
\* produces an analysis it returns exactly the identity analysis: the
\* lowercased input with no suffixes.
C2_NeverEmpty ==
    Deinflected =>
        /\ Len(output) >= 1
        /\ NoAnalysis(word) =>
              /\ Len(output) = 1
              /\ output[1].dictionaryForm = toLowerCase(word)
              /\ output[1].suffixes = <<>>

\* C2 witness: the infinitive gelmek matches no pattern and comes back as
\* the identity analysis.
C2_Witness ==
    /\ pc = "deinflected"
    /\ word = <<"g","e","l","m","e","k">>
    /\ NoAnalysis(word)
    /\ Len(output) = 1
    /\ output[1].suffixes = <<>>

DictionaryForms == NounLemmas \cup RegularLemmas

\* C3: idempotence on dictionary forms.  Deinflecting a verb infinitive or a
\* bare noun lemma yields a result whose dictionary form is the word itself
\* with an empty suffix list.
C3_Idempotence ==
    (pc = "deinflected" /\ word \in DictionaryForms) =>
        \E i \in DOMAIN output :
            output[i].dictionaryForm = word /\ output[i].suffixes = <<>>

\* positions of results that are the first with their dictionary form
FirstOccurrences ==
    {i \in DOMAIN results :
        \A j \in 1..(i - 1) : results[j].dictionaryForm # results[i].dictionaryForm}

\* C4: deduplication.  No two returned results share a dictionary form; the
\* returned results are exactly the first occurrences of each dictionary
\* form among the results produced, in the order they were produced.
C4_Dedup ==
    Deinflected =>
        /\ \A i, j \in DOMAIN output :
              i # j => output[i].dictionaryForm # output[j].dictionaryForm
        /\ Len(output) = Cardinality(FirstOccurrences)
        /\ \A k \in DOMAIN output :
              \E i \in FirstOccurrences :
                  /\ Cardinality({j \in FirstOccurrences : j <= i}) = k
                  /\ output[k] = results[i]

\* C4 witness: evi is analysed as accusative and as 3rd-person possessive of
\* ev, and only the accusative analysis is returned.
C4_Witness ==
    /\ pc = "deinflected"
    /\ word = <<"e","v","i">>
    /\ Len(results) = 2
    /\ Len(output) = 1
    /\ output[1].suffixes = <<"accusative">>

\* C5: ambiguity preservation for the dative.  For every noun stem of two
\* letters or more, deinflecting its dative form returns an analysis whose
\* dictionary form is the stem and whose suffixes are [dative].
C5_Dative ==
    pc = "deinflected" =>
        \A s \in NounStems :
            word = DativeOf(s) =>
                \E i \in DOMAIN output :
                    output[i].dictionaryForm = s /\ output[i].suffixes = <<"dative">>

\* a root of at least two letters followed by d/t + a/e + n
IsAblativeForm(lower) ==
    /\ Len(lower) >= 5
    /\ lower[Len(lower) - 2] \in {"d", "t"}
    /\ lower[Len(lower) - 1] \in {"a", "e"}
    /\ lower[Len(lower)] = "n"

\* C6: longer suffix first.  For every word that is a root of two letters or
\* more followed by an ablative ending, the output holds the ablative
\* analysis of the root, and no locative analysis precedes it.
C6_AblativeFirst ==
    (Deinflected /\ IsAblativeForm(toLowerCase(word))) =>
        \E i \in DOMAIN output :
            /\ output[i].dictionaryForm = DropLast(toLowerCase(word), 3)
            /\ output[i].suffixes = <<"ablative">>
            /\ \A j \in DOMAIN output : output[j].suffixes = <<"locative">> => i < j

\* C6 witness: kitaptan yields kitap with suffix ablative.
C6_Witness ==
    /\ pc = "deinflected"
    /\ word = <<"k","i","t","a","p","t","a","n">>
    /\ \E i \in DOMAIN output :
          /\ output[i].dictionaryForm = <<"k","i","t","a","p">>
          /\ output[i].suffixes = <<"ablative">>

VowelFinalLemmas ==
    {InfinitiveOf(r) : r \in {x \in RegularVerbRoots \cup IrregularRoots : x[Len(x)] \in VOWELS.all}}

HasPresent1sg(df) ==
    \E i \in DOMAIN output :
        /\ output[i].dictionaryForm = df
        /\ \E a, b \in DOMAIN output[i].suffixes :
              output[i].suffixes[a] = "present" /\ output[i].suffixes[b] = "1sg"

\* C7: deinflect("okuyorum") holds okumak with suffixes present and 1sg, and
\* for every verb whose root ends in a vowel the positive present 1st
\* singular form deinflects to the lemma with suffixes present and 1sg.
C7_Okuyorum ==
    /\ (pc = "deinflected" /\ word = <<"o","k","u","y","o","r","u","m">>)
          => HasPresent1sg(<<"o","k","u","m","a","k">>)
    /\ (pc = "roundtrip" /\ infinitive \in VowelFinalLemmas /\ tense = "present"
            /\ person = "ben" /\ polarity = "positive")
          => HasPresent1sg(infinitive)

(***************************************************************************)
(* The conjugation rules as the specification words them, written with    *)
(* their own harmony tables                                                *)
(***************************************************************************)
Voiceless == {"c,", "f", "h", "k", "p", "s", "s,", "t"}
Vowels == {"a", "e", "i0", "i", "o", "o:", "u", "u:"}

FourWayOf ==
    [v \in Vowels |->
        CASE v \in {"a", "i0"} -> "i0"
          [] v \in {"e", "i"} -> "i"
          [] v \in {"o", "u"} -> "u"
          [] v \in {"o:", "u:"} -> "u:"]

TwoWayOf == [v \in Vowels |-> IF v \in {"a", "i0", "o", "u"} THEN "a" ELSE "e"]

HasVowel(s) == \E i \in DOMAIN s : s[i] \in Vowels
LastVowelOf(s) ==
    s[CHOOSE i \in DOMAIN s : s[i] \in Vowels /\ \A j \in DOMAIN s : j > i => s[j] \notin Vowels]
CountVowels(s) == Cardinality({i \in DOMAIN s : s[i] \in Vowels})
IsLower(s) == toLowerCase(s) = s

\* the four-way (I) and two-way (A) harmony vowels of a stem that has a vowel
HarmonyI(s) == FourWayOf[LastVowelOf(s)]
HarmonyA(s) == TwoWayOf[LastVowelOf(s)]

\* type-2 person suffix (m, n, empty, k, nIz, lAr) harmonised to the stem
Type2Suffix(stem, p) ==
    CASE p = "ben" -> <<"m">>
      [] p = "sen" -> <<"n">>
      [] p = "o" -> <<>>
      [] p = "biz" -> <<"k">>
      [] p = "siz" -> <<"n", HarmonyI(stem), "z">>
      [] p = "onlar" -> <<"l", HarmonyA(stem), "r">>

\* r + D + I + type-2 person suffix
ExpectedPast(r, p) ==
    LET D == IF r[Len(r)] \in Voiceless THEN "t" ELSE "d"
        stem == r \o <<D, HarmonyI(r)>>
    IN  stem \o Type2Suffix(stem, p)

PastDomain(r) == IsLower(r) /\ HasVowel(r)

\* C8: simple past.  conjugateVerb("gelmek", false) holds geldim for past,
\* ben, positive; the positive simple past of a root r is r + D + I + type-2
\* person suffix, D being t exactly after a voiceless consonant, I the
\* four-way harmony vowel, the person suffix harmonised to the stem so far.
C8_SimplePast ==
    /\ (pc = "table" /\ infinitive = <<"g","e","l","m","e","k">>) =>
          /\ table.tenses[2].tense = "past"
          /\ table.tenses[2].forms["ben"].positive = <<"g","e","l","d","i","m">>
    /\ (pc = "table" /\ PastDomain(table.root)) =>
          \A i \in DOMAIN Persons :
              table.tenses[2].forms[Persons[i]].positive = ExpectedPast(table.root, Persons[i])
    /\ (pc = "conjugated" /\ tense = "past" /\ polarity = "positive"
            /\ PastDomain(getVerbRoot(infinitive))) =>
          form = ExpectedPast(getVerbRoot(infinitive), person)

\* C8 witness: the table of gelmek holds geldim, and the table of yapmak
\* (voiceless final consonant, back vowel) holds yaptiniz with dotless i.
C8_Witness ==
    /\ pc = "table"
    /\ \/ /\ infinitive = <<"g","e","l","m","e","k">>
          /\ table.tenses[2].forms["ben"].positive = <<"g","e","l","d","i","m">>
       \/ /\ infinitive = <<"y","a","p","m","a","k">>
          /\ table.tenses[2].forms["siz"].positive = <<"y","a","p","t","i0","n","i0","z">>

SofteningRoots ==
    {<<"g","i","t">>, <<"e","t">>, <<"t","a","t">>, <<"g","u:","t">>, <<"d","i","t">>}

AoristIrRoots ==
    {<<"a","l">>, <<"b","i","l">>, <<"b","u","l">>, <<"d","u","r">>, <<"g","e","l">>,
     <<"g","o:","r">>, <<"k","a","l">>, <<"o","l">>, <<"o:","l">>, <<"s","a","n">>,
     <<"v","a","r">>, <<"v","e","r">>, <<"v","u","r">>}

\* the positive aorist base by the four rules in their order
ExpectedAoristBase(r) ==
    IF r \in SofteningRoots
    THEN LET stem == SubSeq(r, 1, Len(r) - 1) \o <<"d">>
         IN  stem \o <<HarmonyA(stem), "r">>
    ELSE IF r[Len(r)] \in Vowels THEN r \o <<"r">>
    ELSE IF CountVowels(r) = 1 /\ r \in AoristIrRoots THEN r \o <<HarmonyI(r), "r">>
    ELSE IF CountVowels(r) = 1 THEN r \o <<HarmonyA(r), "r">>
    ELSE r \o <<HarmonyI(r), "r">>

IsPrefix(a, b) == Len(a) <= Len(b) /\ SubSeq(b, 1, Len(a)) = a

\* C9: positive aorist suffix selection.  A consonant-softening root takes
\* the softened stem plus -Ar (gitmek gives gider); otherwise a vowel-final
\* root takes -r; otherwise a one-vowel root of the exception list takes
\* -Ir; otherwise a one-vowel root takes -Ar and a longer root takes -Ir.
C9_AoristSuffix ==
    (pc = "conjugated" /\ tense = "aorist" /\ polarity = "positive"
        /\ IsLower(getVerbRoot(infinitive)) /\ HasVowel(getVerbRoot(infinitive))) =>
        LET base == ExpectedAoristBase(getVerbRoot(infinitive))
        IN  /\ IsPrefix(base, form)
            /\ person = "o" => form = base
            /\ (infinitive = <<"g","i","t","m","e","k">> /\ person = "o")
                  => form = <<"g","i","d","e","r">>

\* C9 witness: gider, the 3rd singular positive aorist of gitmek.
C9_Witness ==
    /\ pc = "conjugated"
    /\ infinitive = <<"g","i","t","m","e","k">>
    /\ tense = "aorist" /\ person = "o" /\ polarity = "positive"
    /\ form = <<"g","i","d","e","r">>

\* type-3 person suffixes of the present continuous
Type3Suffix(p) ==
    CASE p = "ben" -> <<"u","m">>
      [] p = "sen" -> <<"s","u","n">>
      [] p = "o" -> <<>>
      [] p = "biz" -> <<"u","z">>
      [] p = "siz" -> <<"s","u","n","u","z">>
      [] p = "onlar" -> <<"l","a","r">>

ContractedOf(r) == IF r = <<"y","e">> THEN <<"y","i">> ELSE <<"d","i">>

\* C10: vowel contraction.  For the roots ye and de the positive present is
\* the contracted root + yor + person suffix (yemek, ben gives yiyorum); the
\* negative is built on the uncontracted root.
C10_Contraction ==
    (pc = "conjugated" /\ tense = "present"
        /\ getVerbRoot(infinitive) \in {<<"y","e">>, <<"d","e">>}) =>
        LET r == getVerbRoot(infinitive)
        IN  /\ polarity = "positive" =>
                  form = ContractedOf(r) \o <<"y","o","r">> \o Type3Suffix(person)
            /\ polarity = "negative" =>
                  form = r \o <<"m","i","y","o","r">> \o Type3Suffix(person)
            /\ (r = <<"y","e">> /\ person = "ben" /\ polarity = "positive")
                  => form = <<"y","i","y","o","r","u","m">>

\* C10 witness: yiyorum, and the negative yemiyorum on the uncontracted root.
C10_Witness ==
    /\ pc = "conjugated"
    /\ infinitive = <<"y","e","m","e","k">>
    /\ tense = "present" /\ person = "ben"
    /\ \/ polarity = "positive" /\ form = <<"y","i","y","o","r","u","m">>
       \/ polarity = "negative" /\ form = <<"y","e","m","i","y","o","r","u","m">>

\* the negative aorist as the specification words it: root + mA + m for the
\* 1st singular, root + mAz + person suffix for every other person
NegativeAoristStem(r) == r \o <<"m", HarmonyA(r)>>

\* C11: negative aorist.  For every root and person the negative aorist is
\* built on root + mAz followed by the person suffix, except the 1st
\* singular, which is the short form root + mA + m; the 2nd singular of
\* etmek is built on etmez-.
C11_NegativeAorist ==
    (pc = "conjugated" /\ tense = "aorist" /\ polarity = "negative"
        /\ IsLower(getVerbRoot(infinitive)) /\ HasVowel(getVerbRoot(infinitive))) =>
        LET neg == NegativeAoristStem(getVerbRoot(infinitive))
        IN  /\ person = "ben" => form = neg \o <<"m">>
            /\ person # "ben" => IsPrefix(neg \o <<"z">>, form)
            /\ (infinitive = <<"e","t","m","e","k">> /\ person = "sen")
                  => IsPrefix(<<"e","t","m","e","z">>, form)

\* the lemma ends in -mek or -mak, whatever the case of the letters
EndsInMekMak(lemma) ==
    /\ Len(lemma) >= 3
    /\ lemma[Len(lemma) - 2] \in {"m", "M"}
    /\ lemma[Len(lemma) - 1] \in {"e", "E", "a", "A"}
    /\ lemma[Len(lemma)] \in {"k", "K"}

\* the tenses of a table in their fixed order: nine simple, five compound
TenseOrder ==
    <<"present", "past", "future", "aorist", "reported", "conditional",
      "necessitative", "optative", "imperative", "pastContinuous", "futurePast",
      "pastReported", "aoristPast", "pastContinuousReported">>

PersonSet == {"ben", "sen", "o", "biz", "siz", "onlar"}
PolaritySet == {"positive", "negative", "question", "negativeQuestion"}

\* a string: a finite sequence of code units
IsString(x) == DOMAIN x = 1..Len(x)

\* C12: conjugateVerb is total.  For every lemma, the empty string and
\* strings without -mek/-mak included, the table has 9 tense entries without
\* the compound tenses and 14 with them, in the fixed tense order, each
\* entry holding 6 persons times 4 polarity cells; the root is the lemma
\* unchanged when it does not end in -mek/-mak and the lemma minus its last
\* 3 characters otherwise.
C12_Total ==
    pc = "table" =>
        /\ table.infinitive = infinitive
        /\ Len(table.tenses) = IF compound THEN 14 ELSE 9
        /\ \A k \in DOMAIN table.tenses :
              /\ table.tenses[k].tense = TenseOrder[k]
              /\ DOMAIN table.tenses[k].forms = PersonSet
              /\ \A p \in PersonSet :
                    /\ DOMAIN table.tenses[k].forms[p] = PolaritySet
                    /\ \A c \in PolaritySet : IsString(table.tenses[k].forms[p][c])
        /\ table.root = IF EndsInMekMak(infinitive)
                        THEN SubSeq(infinitive, 1, Len(infinitive) - 3)
                        ELSE infinitive

\* C12 witness: the table of the empty lemma with the compound tenses, and
\* the table of a lemma without an infinitive ending.
C12_Witness ==
    /\ pc = "table"
    /\ \/ infinitive = <<>> /\ compound /\ Len(table.tenses) = 14 /\ table.root = <<>>
       \/ infinitive = <<"e","v">> /\ ~compound /\ Len(table.tenses) = 9
            /\ table.root = <<"e","v">>

\* C13: undefined grammatical combination.  For every lemma the imperative
\* 1st-person-singular form is the empty string for every polarity
\* (positive, negative, question, negative question), both from the
\* single-form operation and in the cells of the conjugation table.
C13_ImperativeBen ==
    /\ (pc = "conjugated" /\ tense = "imperative" /\ person = "ben") => form = <<>>
    /\ pc = "table" =>
          \A k \in DOMAIN table.tenses :
              table.tenses[k].tense = "imperative" =>
                  \A c \in PolaritySet : table.tenses[k].forms["ben"][c] = <<>>

\* the question particle as the specification words it, for a form that
\* has a vowel: form + " " + m + four-way harmony vowel + "?"
ExpectedQuestion(f) == f \o <<" ", "m", HarmonyI(f), "?">>

\* the particle follows the form after a space
IsSeparatedQuestion(f, q) ==
    /\ Len(q) = Len(f) + 4
    /\ IsPrefix(f, q)
    /\ q[Len(f) + 1] = " "
    /\ q[Len(f) + 2] = "m"
    /\ q[Len(f) + 3] \in {"i", "i0", "u", "u:"}
    /\ q[Len(f) + 4] = "?"

\* C14: question forms are a pure transformation of the stored forms.  In
\* every table cell, question = positive + " " + m + four-way harmony vowel
\* of the positive form's last vowel + "?", negativeQuestion is the same
\* transformation of the negative form, and the particle is always
\* separated by a space, never fused into the preceding form.
C14_Question ==
    pc = "table" =>
        \A k \in DOMAIN table.tenses : \A p \in PersonSet :
            LET cells == table.tenses[k].forms[p]
            IN  /\ IsSeparatedQuestion(cells.positive, cells.question)
                /\ IsSeparatedQuestion(cells.negative, cells.negativeQuestion)
                /\ (IsLower(cells.positive) /\ HasVowel(cells.positive))
                      => cells.question = ExpectedQuestion(cells.positive)
                /\ (IsLower(cells.negative) /\ HasVowel(cells.negative))
                      => cells.negativeQuestion = ExpectedQuestion(cells.negative)

\* C14 witness: the table of yapmak holds the back-rounded particle after
\* yapiyorum and the back-unrounded one after yapmadim.
C14_Witness ==
    /\ pc = "table"
    /\ infinitive = <<"y","a","p","m","a","k">>
    /\ table.tenses[1].forms["ben"].question
          = <<"y","a","p","i0","y","o","r","u","m"," ","m","u","?">>
    /\ table.tenses[2].forms["ben"].negativeQuestion
          = <<"y","a","p","m","a","d","i0","m"," ","m","i0","?">>

UpperVowels == {"A", "E", "I", "I.", "O", "O:", "U", "U:"}

\* the stem has a last vowel, in either case
StemHasVowel(s) == \E i \in DOMAIN s : s[i] \in Vowels \cup UpperVowels

\* out is a resolution of the template character c
IsResolved(c, out) ==
    CASE c = "A" -> out \in {"e", "a"}
      [] c = "I" -> out \in {"i", "i0", "u", "u:"}
      [] c = "D" -> out \in {"d", "t"}
      [] OTHER -> out = c

\* C15: harmony totality.  For every stem whose last vowel is one of the 8
\* vowels and every template over literals and the placeholders A, I, D,
\* the suffix part applySuffix produces holds no unresolved placeholder:
\* each A is e or a, each I is i, dotless i, u or u-diaeresis, each D is d
\* or t, and literals pass through unchanged.
C15_HarmonyTotality ==
    (pc = "suffixed" /\ StemHasVowel(harmonyStem)) =>
        /\ Len(suffixed) = Len(harmonyStem) + Len(harmonyTemplate)
        /\ IsPrefix(harmonyStem, suffixed)
        /\ \A i \in DOMAIN harmonyTemplate :
              IsResolved(harmonyTemplate[i], suffixed[Len(harmonyStem) + i])

\* C15 witness: kitap + DA gives kitapta, every placeholder resolved.
C15_Witness ==
    /\ pc = "suffixed"
    /\ harmonyStem = <<"k","i","t","a","p">>
    /\ harmonyTemplate = <<"D","A">>
    /\ suffixed = <<"k","i","t","a","p","t","a">>

\* the front resolution of a template after a stem without a vowel
FrontResolution(s, t) ==
    [i \in DOMAIN t |->
        CASE t[i] = "A" -> "e"
          [] t[i] = "I" -> "i"
          [] t[i] = "D" -> IF s # <<>> /\ s[Len(s)] \in Voiceless THEN "t" ELSE "d"
          [] OTHER -> t[i]]

\* C16: vowel-less fallback.  For a stem without a vowel, harmony defaults
\* to front: applySuffix resolves A to e, I to i and D by the stem's final
\* consonant, and the other harmony consumers (harmonize in the
\* conjugation, the question particle, the choice of the infinitive ending,
\* the vowel-type classification) use the same front default.
C16_VowellessFallback ==
    /\ (pc = "suffixed" /\ ~StemHasVowel(harmonyStem)) =>
          suffixed = harmonyStem \o FrontResolution(harmonyStem, harmonyTemplate)
    /\ (pc = "table" /\ ~StemHasVowel(table.root)) =>
          /\ table.vowelType = "e-type"
          /\ table.tenses[5].forms["ben"].positive = table.root \o <<"m","i","s,","i","m">>
          /\ table.tenses[9].forms["sen"].question = table.root \o <<" ","m","i","?">>
    /\ Deinflected =>
          \A i \in DOMAIN output :
              (output[i].possiblePos = <<"verb">>
                    /\ ~StemHasVowel(DropLast(output[i].dictionaryForm, 3)))
                  => EndsWith(output[i].dictionaryForm, <<"m","e","k">>)

(***************************************************************************)
(* The lookup orchestration as the specification words it                  *)
(***************************************************************************)
\* the store answers the lookup of w with an entry
Hits(w) == Lookup(site, wordStore, w) # <<>>

\* the orchestration is past its loop over the candidates
LoopOver == pc \in {"done", "awaitTdk", "awaitEnglish"}

\* the entry the orchestration settled on, if any
FoundEntry == IF site = "load" THEN page.words ELSE token.data

CandidateForms == [i \in DOMAIN candidates |-> candidates[i].dictionaryForm]

DiffersFromQuery(f) == f # toLowerCase(query)

\* after the first lookup, the lookups issued are the given forms in their
\* order, one at a time, up to the first that hits, whose entry is the result
LookupsFollow(forms) ==
    LET n == Len(lookups) - 1
    IN  /\ n <= Len(forms)
        /\ \A i \in 1..n : lookups[i + 1] = forms[i]
        /\ \A i \in 1..(n - 1) : ~Hits(forms[i])
        /\ pc = "awaitCandidate" => n >= 1
        /\ LoopOver =>
              \/ n >= 1 /\ Hits(forms[n]) /\ FoundEntry = Lookup(site, wordStore, forms[n])
              \/ n = Len(forms) /\ (n >= 1 => ~Hits(forms[n])) /\ FoundEntry = <<>>

\* C17 as stated: lookup orchestration ordering.  The exact lookup of the
\* query is issued first; deinflect is invoked only if it misses; candidate
\* lookups are then issued one at a time for each candidate's dictionary
\* form in exactly the order deinflect returned them, and no lookup is
\* issued after the first candidate lookup that hits, whose entry becomes
\* the result.
C17_LookupOrder ==
    /\ lookups # <<>> => lookups[1] = query
    /\ deinflectCalled => ~Hits(query) /\ LookupsFollow(CandidateForms)

\* C17 as amended: the same, the candidate lookups being issued for each
\* candidate whose dictionary form differs from the lowercased query; a
\* candidate equal to it is skipped without a lookup.
C17_LookupOrderSkipping ==
    /\ lookups # <<>> => lookups[1] = query
    /\ deinflectCalled =>
          ~Hits(query) /\ LookupsFollow(SelectSeq(CandidateForms, DiffersFromQuery))

\* C17 witness: the analyzer looks up evlerde, then the candidates evlerdmek
\* and evler in deinflect's order, and stops at evler, which hits; the
\* third candidate is never looked up.
C17_Witness ==
    /\ pc = "done"
    /\ site = "analyzer"
    /\ lookups = <<EVLER \o <<"d","e">>, EVLER \o <<"d","m","e","k">>, EVLER>>
    /\ Len(candidates) = 3
    /\ token.data = <<wordStore[EVLER]>>

\* the position of the first lookup the store answered with an entry
FirstHit == CHOOSE i \in DOMAIN lookups :
                /\ lookups[i] \in DOMAIN wordStore
                /\ \A j \in 1..(i - 1) : lookups[j] \notin DOMAIN wordStore

\* C18: form-of chained resolution.  Whenever the entry found for a token,
\* by the exact lookup or by a deinflection candidate, is tagged form-of,
\* the token following the word "of" at the end of the gloss is extracted
\* and exactly one further lookup is performed for it; if the gloss is
\* absent or unparseable, or that lookup misses, the base-word data stays
\* empty; the found entry is kept and no error state is set.
C18_FormOf ==
    (pc = "done" /\ site = "saved" /\ token.data # <<>> /\ isFormOfEntry(token.data[1])) =>
        /\ token.data = <<wordStore[lookups[FirstHit]]>>
        /\ ~token.error
        /\ IF BaseWordOf(token.data[1]) # <<>>
           THEN /\ Len(lookups) = FirstHit + 1
                /\ lookups[Len(lookups)] = BaseWordOf(token.data[1])[1]
                /\ token.baseWordData = tryFetchWord(wordStore, BaseWordOf(token.data[1])[1])
           ELSE /\ Len(lookups) = FirstHit
                /\ token.baseWordData = <<>>

\* ---------------------------------------------------------------------
\* C20: output order of deinflect

NounCasePos == <<"noun", "adjective", "proper-noun">>
PossessivePos == <<"noun", "adjective">>

\* pattern k of the verb table matches lower and yields r
ProducedByVerb(r, lower, k) ==
    /\ MatchIndex(lower, VERB_TENSE_PATTERNS[k].alts) >= 0
    /\ r = VerbResult(r.originalWord, lower, VERB_TENSE_PATTERNS[k],
                      MatchIndex(lower, VERB_TENSE_PATTERNS[k].alts))

\* pattern k of a noun table matches lower and yields r
ProducedByNoun(r, lower, patterns, pos, k) ==
    /\ MatchIndex(lower, patterns[k].alts) >= MinNounRoot
    /\ r = NounResult(r.originalWord,
                      StripAt(lower, MatchIndex(lower, patterns[k].alts)),
                      patterns[k], pos)

\* the least element of a set of table positions, 0 for the empty set
LeastOf(S) == IF S = {} THEN 0 ELSE CHOOSE k \in S : \A m \in S : k <= m

\* group of the pattern that produced r: 1 verb, 2 noun case, 3 possessive,
\* 4 the identity fallback
GroupOf(r) ==
    IF r.suffixes = <<>> THEN 4
    ELSE IF r.possiblePos = <<"verb">> THEN 1
    ELSE IF r.possiblePos = NounCasePos THEN 2
    ELSE 3

\* position in its table of the first pattern that produces r (0 if none)
TablePosition(r, lower) ==
    IF r.suffixes = <<>> THEN 1
    ELSE IF r.possiblePos = <<"verb">>
    THEN LeastOf({k \in DOMAIN VERB_TENSE_PATTERNS : ProducedByVerb(r, lower, k)})
    ELSE IF r.possiblePos = NounCasePos
    THEN LeastOf({k \in DOMAIN NOUN_CASE_PATTERNS :
                    ProducedByNoun(r, lower, NOUN_CASE_PATTERNS, NounCasePos, k)})
    ELSE LeastOf({k \in DOMAIN POSSESSIVE_PATTERNS :
                    ProducedByNoun(r, lower, POSSESSIVE_PATTERNS, PossessivePos, k)})

\* r1 comes from an earlier group than r2, or from the same group and a
\* pattern that is not later in the table
InPatternOrder(r1, r2, lower) ==
    \/ GroupOf(r1) < GroupOf(r2)
    \/ /\ GroupOf(r1) = GroupOf(r2)
       /\ TablePosition(r1, lower) <= TablePosition(r2, lower)

\* position of a case in NOUN_CASE_PATTERNS
CasePosition(sfx) ==
    LeastOf({k \in DOMAIN NOUN_CASE_PATTERNS : NOUN_CASE_PATTERNS[k].suffix = sfx})

\* rs is in pattern order, and strictly so when strict is set
OrderedByPattern(rs, lower, strict) ==
    /\ \A i \in DOMAIN rs : TablePosition(rs[i], lower) >= 1
    /\ \A i, j \in DOMAIN rs :
          i < j => /\ InPatternOrder(rs[i], rs[j], lower)
                   /\ strict => ~InPatternOrder(rs[j], rs[i], lower)

\* C20: in the results of deinflect, and in what remains of them after the
\* duplicate filter, every verb analysis precedes every noun-case analysis,
\* which precedes every possessive analysis; inside a group the analyses
\* stand in the order of the patterns in their table (strictly so in the
\* returned list); the noun-case table lists ablative before locative and
\* genitive before accusative, and no locative analysis precedes an ablative
\* one, no accusative analysis a genitive one.
C20_PatternOrder ==
    /\ CasePosition("ablative") >= 1
    /\ CasePosition("ablative") < CasePosition("locative")
    /\ CasePosition("genitive") >= 1
    /\ CasePosition("genitive") < CasePosition("accusative")
    /\ Deinflected =>
          /\ OrderedByPattern(results, toLowerCase(word), FALSE)
          /\ OrderedByPattern(output, toLowerCase(word), TRUE)
          /\ \A i, j \in DOMAIN results :
                (/\ results[i].suffixes = <<"locative">>
                 /\ results[j].suffixes = <<"ablative">>) => j < i
          /\ \A i, j \in DOMAIN results :
                (/\ results[i].suffixes = <<"accusative">>
                 /\ results[j].suffixes = <<"genitive">>) => j < i

\* C20 witness: a word with two verb analyses, a noun-case analysis and a
\* possessive analysis, of which analyses of two groups are returned (edin).
C20_Witness ==
    /\ pc = "deinflected"
    /\ \E i, j, k, l \in DOMAIN results :
          /\ i < j /\ j < k /\ k < l
          /\ GroupOf(results[i]) = 1 /\ GroupOf(results[j]) = 1
          /\ GroupOf(results[k]) = 2 /\ GroupOf(results[l]) = 3
    /\ \E i, j, k \in DOMAIN output :
          /\ i < j /\ j < k
          /\ GroupOf(output[i]) = 1 /\ GroupOf(output[j]) = 1
          /\ GroupOf(output[k]) = 2

\* ---------------------------------------------------------------------
\* C21: the negative marker as composition

NegatableTenses == {"past", "reported", "conditional", "necessitative"}

\* r + mA, A the two-way harmony vowel of r (e for a root without a vowel)
NegatedStem(r) ==
    r \o <<"m", IF HasVowel(toLowerCase(r)) THEN HarmonyA(toLowerCase(r)) ELSE "e">>

\* C21: for simple past, reported past, conditional and necessitative, every
\* root r and every person, the negative form is the positive form of the
\* stem r + mA, both in the table of conjugateVerb and in getConjugation.
C21_NegativeComposition ==
    /\ pc = "table" =>
          \A k \in DOMAIN table.tenses :
              table.tenses[k].tense \in NegatableTenses =>
                  \A i \in DOMAIN Persons :
                      table.tenses[k].forms[Persons[i]].negative
                          = conjugateForm(NegatedStem(table.root), table.tenses[k].tense,
                                          Persons[i], FALSE)
    /\ (pc = "conjugated" /\ tense \in NegatableTenses /\ polarity = "negative") =>
          form = conjugateForm(NegatedStem(getVerbRoot(infinitive)), tense, person, FALSE)

\* C21 witness: the table of yapmak holds yapmadim (back a, voiced d after
\* the vowel of the marker although the root ends in voiceless p), and the
\* single form gelmemisler is returned for gelmek, reported, onlar.
C21_Witness ==
    \/ /\ pc = "table"
       /\ infinitive = <<"y","a","p","m","a","k">>
       /\ table.tenses[2].forms["ben"].negative = <<"y","a","p","m","a","d","i0","m">>
    \/ /\ pc = "conjugated"
       /\ infinitive = <<"g","e","l","m","e","k">>
       /\ tense = "reported" /\ person = "onlar" /\ polarity = "negative"
       /\ form = <<"g","e","l","m","e","m","i","s,","l","e","r">>

\* ---------------------------------------------------------------------
\* C22: minimum noun root length

\* some pattern of the table with the given suffix matches lower and leaves
\* a root of fewer than two letters
LeavesShortRoot(lower, patterns, sfx) ==
    \E k \in DOMAIN patterns :
        /\ patterns[k].suffix = sfx
        /\ MatchIndex(lower, patterns[k].alts) \in {0, 1}

\* C22: every result of a noun-case or possessive pattern has a
\* dictionaryForm of at least two letters, and a pattern whose match leaves
\* a root of zero or one letter contributes no result.
C22_MinNounRoot ==
    Deinflected =>
        \A i \in DOMAIN results :
            /\ GroupOf(results[i]) \in {2, 3} => Len(results[i].dictionaryForm) >= 2
            /\ GroupOf(results[i]) = 2 =>
                  ~LeavesShortRoot(toLowerCase(word), NOUN_CASE_PATTERNS,
                                   results[i].suffixes[1])
            /\ GroupOf(results[i]) = 3 =>
                  ~LeavesShortRoot(toLowerCase(word), POSSESSIVE_PATTERNS,
                                   results[i].suffixes[1])

\* C22 witness: in ede the locative ending would leave the one-letter root
\* e and gives no result, while the dative ending leaves ed and gives one.
C22_Witness ==
    /\ pc = "deinflected"
    /\ word = <<"e","d","e">>
    /\ LeavesShortRoot(word, NOUN_CASE_PATTERNS, "locative")
    /\ \A i \in DOMAIN results : results[i].suffixes # <<"locative">>
    /\ \E i \in DOMAIN results :
          /\ results[i].suffixes = <<"dative">>
          /\ results[i].dictionaryForm = <<"e","d">>

\* ---------------------------------------------------------------------
\* C23: irregular-root reversal recovers the lemma

\* surface forms on softened stems, contracted stems and irregular aorists,
\* each with the infinitive of its verb
IrregularSurfaceForms == <<
    <<<<"g","i","d","i","y","o","r","u","m">>, <<"g","i","t","m","e","k">>>>,
    <<<<"e","d","i","y","o","r">>, <<"e","t","m","e","k">>>>,
    <<<<"y","i","y","o","r","u","m">>, <<"y","e","m","e","k">>>>,
    <<<<"d","i","y","o","r">>, <<"d","e","m","e","k">>>>,
    <<<<"g","i","d","e","r">>, <<"g","i","t","m","e","k">>>>,
    <<<<"e","d","e","r">>, <<"e","t","m","e","k">>>>,
    <<<<"t","a","d","a","r">>, <<"t","a","t","m","a","k">>>>,
    <<<<"y","e","r">>, <<"y","e","m","e","k">>>>,
    <<<<"d","e","r">>, <<"d","e","m","e","k">>>> >>

\* a verb candidate ends in -mak exactly when the last vowel of what
\* precedes the ending is a back vowel, and in -mek otherwise
HarmonicInfinitive(df) ==
    /\ Len(df) >= 3
    /\ LET root == DropLast(df, 3)
           ending == SubSeq(df, Len(df) - 2, Len(df))
       IN  IF HasVowel(root) /\ TwoWayOf[LastVowelOf(root)] = "a"
           THEN ending = <<"m","a","k">>
           ELSE ending = <<"m","e","k">>

\* C23: deinflecting gidiyorum, ediyor, yiyorum, diyor, gider, eder, tadar,
\* yer or der yields a candidate equal to the infinitive of the underlying
\* verb, and every verb candidate carries -mak exactly when the restored
\* root's last vowel is a back vowel.
C23_IrregularReversal ==
    Deinflected =>
        /\ \A k \in DOMAIN IrregularSurfaceForms :
              word = IrregularSurfaceForms[k][1] =>
                  \E i \in DOMAIN output :
                      output[i].dictionaryForm = IrregularSurfaceForms[k][2]
        /\ \A i \in DOMAIN output :
              GroupOf(output[i]) = 1 => HarmonicInfinitive(output[i].dictionaryForm)

\* ---------------------------------------------------------------------
\* C24: compound tenses as compositions over simple conjugation

CompoundTenses ==
    {"pastContinuous", "futurePast", "pastReported", "aoristPast", "pastContinuousReported"}

\* the simple tense under each compound tense
UnderlyingTense ==
    [t \in CompoundTenses |->
        CASE t = "pastContinuous" -> "present"
          [] t = "futurePast" -> "future"
          [] t = "pastReported" -> "reported"
          [] t = "aoristPast" -> "aorist"
          [] t = "pastContinuousReported" -> "present"]

\* four-way and two-way harmony vowels of a base, with the front defaults
\* for a base without a vowel
LayerI(base) == IF HasVowel(toLowerCase(base)) THEN HarmonyI(toLowerCase(base)) ELSE "i"
LayerA(base) == IF HasVowel(toLowerCase(base)) THEN HarmonyA(toLowerCase(base)) ELSE "e"

\* the second layer: reported mIs, or past DI with t after a voiceless consonant
SecondLayer(t, base) ==
    IF t = "pastContinuousReported" THEN <<"m", LayerI(base), "s,">>
    ELSE <<IF base # <<>> /\ base[Len(base)] \in Voiceless THEN "t" ELSE "d", LayerI(base)>>

\* the person suffix of the second layer's set, harmonised to what precedes
\* it: type 1 after the reported layer, type 2 after the past layer
SecondLayerPerson(t, sofar, p) ==
    IF t = "pastContinuousReported"
    THEN CASE p = "ben" -> <<LayerI(sofar), "m">>
           [] p = "sen" -> <<"s", LayerI(sofar), "n">>
           [] p = "o" -> <<>>
           [] p = "biz" -> <<LayerI(sofar), "z">>
           [] p = "siz" -> <<"s", LayerI(sofar), "n", LayerI(sofar), "z">>
           [] p = "onlar" -> <<"l", LayerA(sofar), "r">>
    ELSE CASE p = "ben" -> <<"m">>
           [] p = "sen" -> <<"n">>
           [] p = "o" -> <<>>
           [] p = "biz" -> <<"k">>
           [] p = "siz" -> <<"n", LayerI(sofar), "z">>
           [] p = "onlar" -> <<"l", LayerA(sofar), "r">>

\* base + second layer + person suffix
ComposedOn(t, base, p) ==
    base \o SecondLayer(t, base) \o SecondLayerPerson(t, base \o SecondLayer(t, base), p)

\* the cell of the table for a tense, person and polarity
TableCell(t, p, pol) ==
    table.tenses[CHOOSE k \in DOMAIN table.tenses : table.tenses[k].tense = t].forms[p][pol]

\* C24: every positive and negative cell of a compound tense is the
\* 3rd-person-singular cell of its underlying simple tense in the same
\* polarity, followed by the past or reported layer harmonised to that base
\* and the person suffix of the second layer's set; the same holds of the
\* single form getConjugation returns.
C24_CompoundComposition ==
    /\ (pc = "table" /\ compound) =>
          \A t \in CompoundTenses, pol \in {"positive", "negative"} :
              \A i \in DOMAIN Persons :
                  TableCell(t, Persons[i], pol)
                      = ComposedOn(t, TableCell(UnderlyingTense[t], "o", pol), Persons[i])
    /\ (pc = "conjugated" /\ tense \in CompoundTenses) =>
          form = ComposedOn(tense,
                            getConjugation(infinitive, UnderlyingTense[tense], "o",
                                           polarity = "negative"),
                            person)

\* C24 witness: the full table of gelmek holds geliyordum, gelecektik,
\* gelmistiniz, gelmezdi and geliyormussunuz.
C24_Witness ==
    /\ pc = "table" /\ compound
    /\ infinitive = <<"g","e","l","m","e","k">>
    /\ TableCell("pastContinuous", "ben", "positive") = <<"g","e","l","i","y","o","r","d","u","m">>
    /\ TableCell("futurePast", "biz", "positive") = <<"g","e","l","e","c","e","k","t","i","k">>
    /\ TableCell("pastReported", "siz", "positive")
          = <<"g","e","l","m","i","s,","t","i","n","i","z">>
    /\ TableCell("aoristPast", "o", "negative") = <<"g","e","l","m","e","z","d","i">>
    /\ TableCell("pastContinuousReported", "siz", "positive")
          = <<"g","e","l","i","y","o","r","m","u","s,","s","u","n","u","z">>

\* ---------------------------------------------------------------------
\* C25: present-continuous elision

ContractionRoots == {<<"y","e">>, <<"d","e">>}

EndsInVowel(r) == r # <<>> /\ r[Len(r)] \in Vowels

\* root without its final vowel + harmony vowel of what remains + yor + person
ExpectedElided(r, p) ==
    DropLast(r, 1) \o <<HarmonyI(DropLast(r, 1)), "y","o","r">> \o Type3Suffix(p)

\* root + m + harmony vowel + yor + person
ExpectedNegativePresent(r, p) ==
    r \o <<"m", HarmonyI(r), "y","o","r">> \o Type3Suffix(p)

\* what C25 says of the present forms of root r for person p
ElisionHolds(r, p, positive, negative) ==
    /\ (EndsInVowel(r) /\ r \notin ContractionRoots /\ HasVowel(DropLast(r, 1))) =>
          /\ positive = ExpectedElided(r, p)
          /\ negative = ExpectedNegativePresent(r, p)
    /\ (r # <<>> /\ ~EndsInVowel(r)) =>
          /\ IsPrefix(r, positive)
          /\ IsPrefix(r, negative)

\* C25: for every lowercase vowel-final root other than ye and de the
\* positive present is the root without its final vowel + the four-way
\* harmony vowel of the remaining stem + yor + person suffix and the
\* negative is root + m + harmony vowel + yor + person suffix; for a
\* consonant-final root no character of the root is dropped.
C25_Elision ==
    (pc = "table" /\ IsLower(table.root)) =>
        \A i \in DOMAIN Persons :
            ElisionHolds(table.root, Persons[i],
                         table.tenses[1].forms[Persons[i]].positive,
                         table.tenses[1].forms[Persons[i]].negative)

\* ---------------------------------------------------------------------
\* C26: one harmony resolution for both engines

\* C26: for every stem and every template over literals and the
\* placeholders A, I and D, what applySuffix returns is the stem followed
\* by what the conjugation engine's harmonize makes of the same template.
C26_SingleHarmony ==
    pc = "suffixed" =>
        suffixed = harmonyStem \o harmonize(harmonyStem, harmonyTemplate)

\* ---------------------------------------------------------------------
\* C27: irregular-root reversal leaves regular roots unchanged

\* the stems the three tables list
TabledStems ==
    {CONSONANT_SOFTENING_VERBS[k][1] : k \in DOMAIN CONSONANT_SOFTENING_VERBS}
        \cup {VOWEL_CONTRACTION_TO_ROOT[k][1] : k \in DOMAIN VOWEL_CONTRACTION_TO_ROOT}
        \cup {IRREGULAR_AORIST_TO_ROOT[k][1] : k \in DOMAIN IRREGULAR_AORIST_TO_ROOT}

\* some result of a verb pattern has the dictionary form df
HasVerbCandidate(df) ==
    \E i \in DOMAIN results : GroupOf(results[i]) = 1 /\ results[i].dictionaryForm = df

\* the root a verb pattern leaves of lower, or the empty sequence without a match
StrippedRoot(lower, k) ==
    IF MatchIndex(lower, VERB_TENSE_PATTERNS[k].alts) >= 0
    THEN StripAt(lower, MatchIndex(lower, VERB_TENSE_PATTERNS[k].alts))
    ELSE <<>>

\* r + mak after a back last vowel, r + mek otherwise
RegularInfinitive(r) ==
    r \o (IF HasVowel(r) /\ TwoWayOf[LastVowelOf(r)] = "a"
          THEN <<"m","a","k">> ELSE <<"m","e","k">>)

\* C27: whenever a verb pattern strips a word to a non-empty root r that is
\* none of the tabled irregular stems, the verb candidate is r + mek/mak.
C27_RegularUnchanged ==
    Deinflected =>
        \A k \in DOMAIN VERB_TENSE_PATTERNS :
            (/\ StrippedRoot(toLowerCase(word), k) # <<>>
             /\ StrippedRoot(toLowerCase(word), k) \notin TabledStems) =>
                HasVerbCandidate(RegularInfinitive(StrippedRoot(toLowerCase(word), k)))

\* ---------------------------------------------------------------------
\* C28: verb candidates have a root

\* C28: every result of deinflect with possiblePos = [verb] has a
\* dictionaryForm longer than its three-letter infinitive ending, so no
\* word yields the bare candidate mek or mak.
C28_VerbRootNonEmpty ==
    Deinflected =>
        \A i \in DOMAIN output :
            output[i].possiblePos = <<"verb">> =>
                /\ Len(output[i].dictionaryForm) > 3
                /\ output[i].dictionaryForm \notin {<<"m","e","k">>, <<"m","a","k">>}

\* ---------------------------------------------------------------------
\* C29: the fetch state machine of a token

\* the runs in flight for the token at index i
RunsOf(i) == {r \in running : r.index = i}

\* C29: with one sentence shown, whatever the prefetch, the clicks and the
\* outcomes of the lookups, every word token has at most one run in flight,
\* is not loading once no run of it is in flight, and never has both data
\* set and error = true.
C29_TokenFetch ==
    pc = "analyzing" =>
        \A i \in DOMAIN tokens :
            /\ Cardinality(RunsOf(i)) <= 1
            /\ RunsOf(i) = {} => ~tokens[i].loading
            /\ ~(tokens[i].data # <<>> /\ tokens[i].error)

\* ---------------------------------------------------------------------
\* C30: no stale write across sentence changes

\* the word of a token and the dictionary forms of its candidates
OwnForms(w) == {w} \cup {deinflect(w)[k].dictionaryForm : k \in DOMAIN deinflect(w)}

\* C30: whatever the interleaving of runs and sentence changes, the data of
\* a token is the entry of the token's own word or of one of the candidates
\* of deinflect of that word.
C30_NoStaleWrite ==
    pc = "analyzing" =>
        \A i \in DOMAIN tokens :
            tokens[i].data # <<>> => tokens[i].data[1].word \in OwnForms(tokens[i].word)

====
